---- MODULE Spec2Model ----
(***************************************************************************)
(* A model of the ant-foraging simulation: the scent field                 *)
(* (src/pheromone), the terrain and world update (src/environment), the    *)
(* colony (src/colony) and the per-agent decision policy (src/ant).        *)
(*                                                                         *)
(* Numbers.  The program computes in f32; the model computes in exact      *)
(* integers on fixed grids:                                                *)
(*   lengths    in 1/100 pixel     (PX units per pixel),                   *)
(*   strengths  in 1/10000         (ONE is the saturation value 1.0),      *)
(*   times      in 1/10 second     (SEC units per second),                 *)
(*   angles     in whole degrees   (PI = 180),                             *)
(*   cos, sin   in 1/1000          (a table of sines of whole degrees),    *)
(*   rand::random::<f32>()  as a draw in 1/1000 from the set Rand.         *)
(* Rust's float `%` is the truncated remainder (sign of the dividend) and  *)
(* `as usize` on a float truncates toward zero and saturates at 0 for a    *)
(* negative value; both are modelled as such.                              *)
(***************************************************************************)
EXTENDS Integers, Sequences, FiniteSets, TLC

VARIABLES grid, pheromones, colonies, NEXT_ANT_ID, ev, steps

vars == <<grid, pheromones, colonies, NEXT_ANT_ID, ev, steps>>

\* ------------------------------------------------------------------ units
PX == 10 * 10
ONE == 100 * 100
SEC == 5 + 5
PI == 90 + 90
TWO_PI == 2 * PI

\* ----------------------------------------------------------------- bounds
\* World size in pixels (Environment::new is given the window size).
WorldW == 200
WorldH == 50
\* How many operations one behaviour of a specification performs.
MaxTicks == 1
\* A scent-field behaviour is at most MaxFieldOps operations, or a run of at
\* most MaxDecays decays with no deposit in it.
MaxFieldOps == 3
MaxDecays == 10
\* A long run is at most MaxRunTicks ticks; in its first QuietTicks ticks
\* every random draw is the middle of its range.
MaxRunTicks == 6
QuietTicks == 5
\* A run of a crowded colony is at most MaxCrowdTicks ticks, all of them
\* with every random draw the middle of its range.
MaxCrowdTicks == 3
\* A behaviour of a colony's store is at most MaxStoreOps calls and ticks.
MaxStoreOps == 3
\* A behaviour of terrain edits is at most MaxEdits edits.
MaxEdits == 2
\* A behaviour of saving and loading is at most MaxReloadTicks ticks and
\* MaxLoads loads of a save just made.
MaxReloadTicks == 2
MaxLoads == 1
\* A run of slow frames is at most MaxSlowTicks ticks, all of them with
\* every random draw the middle of its range.
MaxSlowTicks == 12
\* A run of two carrying episodes is at most MaxEpisodeTicks ticks, all of
\* them with every random draw the middle of its range.
MaxEpisodeTicks == 7
\* A fading scent field receives at most MaxFadeDeposits deposits.
MaxFadeDeposits == 1

\* ------------------------------------------------------------- arithmetic
Abs(a) == IF a < 0 THEN -a ELSE a

Min(a, b) == IF a < b THEN a ELSE b

\* Rust's `/` then truncation toward zero.
TruncDiv(a, b) == IF a >= 0 THEN a \div b ELSE -((-a) \div b)

\* Rust's float `%`: the remainder has the sign of the dividend.
FRem(a, m) == IF a >= 0 THEN a % m ELSE -((-a) % m)

\* Sines of 0..90 degrees, in 1/1000.
SinTable ==
  <<0, 17, 35, 52, 70, 87, 105, 122, 139, 156, 174, 191, 208, 225, 242, 259,
    276, 292, 309, 326, 342, 358, 375, 391, 407, 423, 438, 454, 469, 485, 500,
    515, 530, 545, 559, 574, 588, 602, 616, 629, 643, 656, 669, 682, 695, 707,
    719, 731, 743, 755, 766, 777, 788, 799, 809, 819, 829, 839, 848, 857, 866,
    875, 883, 891, 899, 906, 914, 921, 927, 934, 940, 946, 951, 956, 961, 966,
    970, 974, 978, 982, 985, 988, 990, 993, 995, 996, 998, 999, 999, 1000, 1000>>

\* tan((k - 1/2) degrees) for k = 1..45, in 1/1000: atan rounds to a degree.
TanHalfTable ==
  <<9, 26, 44, 61, 79, 96, 114, 132, 149, 167, 185, 203, 222, 240, 259, 277,
    296, 315, 335, 354, 374, 394, 414, 435, 456, 477, 499, 521, 543, 566, 589,
    613, 637, 662, 687, 713, 740, 767, 795, 824, 854, 885, 916, 949, 983>>

\* f32::sin of an angle in degrees (any integer), in 1/1000.
Sin(a) ==
  LET d == a % TWO_PI
  IN  IF d <= 90 THEN SinTable[d + 1]
      ELSE IF d <= PI THEN SinTable[PI - d + 1]
      ELSE IF d <= 270 THEN -SinTable[d - PI + 1]
      ELSE -SinTable[TWO_PI - d + 1]

\* f32::cos
Cos(a) == Sin(a + 90)

AtanDeg(r) == Cardinality({k \in 1..45 : TanHalfTable[k] <= r})

\* f32::atan2(dy, dx), in degrees in (-180, 180].
Atan2(dy, dx) ==
  LET ax == Abs(dx)
      ay == Abs(dy)
      a  == IF ax = 0 /\ ay = 0 THEN 0
            ELSE IF ay <= ax THEN AtanDeg((ay * 1000) \div ax)
            ELSE 90 - AtanDeg((ax * 1000) \div ay)
  IN  IF dx >= 0 THEN (IF dy >= 0 THEN a ELSE -a)
      ELSE (IF dy >= 0 THEN PI - a ELSE a - PI)

\* rand::random::<f32>() in [0, 1), in 1/1000: the ends of the range and its
\* middle, and the middle alone in the quiet ticks of a long run, in the
\* run of a crowded colony, in a run of slow frames and in a run of two
\* carrying episodes.
Rand ==
  IF \/ steps.start = "run" /\ steps.ticks < QuietTicks
     \/ steps.start = "crowd"
     \/ steps.start = "slow"
     \/ steps.start = "episodes"
  THEN {500}
  ELSE {0, 500, 999}

\* (rand - 0.5) * span, span in degrees.
Jitter(r, span) == TruncDiv((r - 500) * span, 1000)

\* ============================================================ scent field
PheromoneType == {"Food", "Home"}

\* environment/mod.rs: const CELL_SIZE: f32 = 10.0
CELL_SIZE == 10 * PX

\* (x / grid_size) as usize
ToCell(x) == IF x < 0 THEN 0 ELSE x \div CELL_SIZE

\* PheromoneSystem::new: width and height in cells.
PheromoneWidth == (WorldW * PX) \div CELL_SIZE

PheromoneHeight == (WorldH * PX) \div CELL_SIZE

\* 0.005 per second
EVAPORATION_RATE == (5 * (ONE \div 1000)) \div SEC

\* 0.001
REMOVAL_THRESHOLD == ONE \div 1000

\* The strength stored under a key, 0 for an absent entry (unwrap_or(&0.0)).
Stored(ph, key) == IF key \in DOMAIN ph THEN ph[key] ELSE 0

\* HashMap::insert
Insert(ph, key, value) ==
  [k \in DOMAIN ph \cup {key} |-> IF k = key THEN value ELSE ph[k]]

\* A deposit that accumulates without the cap.
new_strength_uncapped(current, strength) == current + strength

\* The value add_pheromone stores: the sum, clamped above only.
new_strength(current, strength) == Min(current + strength, ONE)

add_pheromone_at_grid(ph, grid_x, grid_y, ptype, strength) ==
  IF grid_x >= PheromoneWidth \/ grid_y >= PheromoneHeight THEN ph
  ELSE LET key == <<grid_x, grid_y, ptype>>
       IN  Insert(ph, key, new_strength(Stored(ph, key), strength))

add_pheromone(ph, x, y, ptype, strength) ==
  LET grid_x == ToCell(x)
      grid_y == ToCell(y)
  IN  IF grid_x >= PheromoneWidth \/ grid_y >= PheromoneHeight THEN ph
      ELSE LET key == <<grid_x, grid_y, ptype>>
           IN  Insert(ph, key, new_strength(Stored(ph, key), strength))

get_pheromone(ph, x, y, ptype) ==
  LET grid_x == ToCell(x)
      grid_y == ToCell(y)
  IN  IF grid_x >= PheromoneWidth \/ grid_y >= PheromoneHeight THEN 0
      ELSE Stored(ph, <<grid_x, grid_y, ptype>>)

\* Evaporation at the rate the comment in update still names (0.04).
Evaporated_at_old_rate(strength, delta_time) ==
  strength - 8 * EVAPORATION_RATE * delta_time

\* Evaporation that never takes a strength below twice the removal threshold.
Evaporated_to_floor(strength, delta_time) ==
  IF strength - EVAPORATION_RATE * delta_time < 2 * REMOVAL_THRESHOLD
  THEN 2 * REMOVAL_THRESHOLD
  ELSE strength - EVAPORATION_RATE * delta_time

\* The strength an entry holds after one evaporation step.
Evaporated(strength, delta_time) == strength - EVAPORATION_RATE * delta_time

\* Whether update removes an entry of this (already reduced) strength.
Removed(strength) == strength <= REMOVAL_THRESHOLD

\* PheromoneSystem::update
PheromoneSystem_update(ph, delta_time) ==
  LET kept == {k \in DOMAIN ph : ~Removed(Evaporated(ph[k], delta_time))}
  IN  [k \in kept |-> Evaporated(ph[k], delta_time)]

EmptyField == [k \in {} |-> 0]

\* --------------------------------------------------- what the last step did
\* ev records the operation of the last step, its inputs and the state it
\* started from, so that a property of one operation is a state predicate.
NoEv ==
  [op |-> "init", x |-> 0, y |-> 0, ptype |-> "Food", amount |-> 0, dt |-> 0,
   prePh |-> EmptyField, preCol |-> <<>>, log |-> <<>>, checks |-> <<>>,
   preGap |-> {}, preGrid |-> [c \in {} |-> "Empty"], twin |-> {}]

\* steps counts the operations of a behaviour; gap holds, for every agent
\* that has made a cadence deposit, <<id, dt accumulated since its last one>>,
\* and episode, for every agent that has picked food up, <<id, its lifetime
\* at its last pickup>>.
NoSteps ==
  [ticks |-> 0, deposits |-> 0, decays |-> 0, sumDt |-> 0, start |-> "empty",
   gap |-> {}, calls |-> 0, episode |-> {}]

\* =================================================================== terrain
\* Environment::new: grid_width and grid_height.
GridWidth == (WorldW * PX) \div CELL_SIZE

GridHeight == (WorldH * PX) \div CELL_SIZE

\* The dense grid Vec<CellType> is written as the map of its cells that are
\* not Empty, keyed <<x, y>>; a cell without an entry is Empty.
EmptyGrid == [c \in {} |-> "Empty"]

is_valid_position(x, y) == x < GridWidth /\ y < GridHeight

get_cell(g, x, y) ==
  IF is_valid_position(x, y) /\ <<x, y>> \in DOMAIN g THEN g[<<x, y>>]
  ELSE "Empty"

set_cell(g, x, y, cell_type) ==
  IF ~is_valid_position(x, y) THEN g
  ELSE IF cell_type = "Empty" THEN [c \in DOMAIN g \ {<<x, y>>} |-> g[c]]
  ELSE [c \in DOMAIN g \cup {<<x, y>>} |->
          IF c = <<x, y>> THEN cell_type ELSE g[c]]

screen_to_grid(x, y) == <<ToCell(x), ToCell(y)>>

\* ================================================ the scent field on its own
\* Positions handed to deposit and query: one inside cell (0, 0), and
\* positions left of, above, right of and below the world.
FieldPoints ==
  {<<5 * PX, 5 * PX>>, <<-5 * PX, 5 * PX>>,
   <<5 * PX, -5 * PX>>, <<(WorldW + 5) * PX, 5 * PX>>,
   <<5 * PX, (WorldH + 5) * PX>>}

\* Deposit amounts: -0.3, 0, 0.6.
DepositAmounts == {-(3 * (ONE \div 10)), 0, 6 * (ONE \div 10)}

\* Decay steps: 0.5 s and 1.0 s.
FieldDts == {5, SEC}

\* Fields a saved game restores (add_pheromone_at_grid on an empty field).
HalfField == [k \in {<<0, 0, "Food">>} |-> ONE \div 2]

FaintField == [k \in {<<1, 0, "Home">>} |-> 4 * (ONE \div 1000)]

InitField ==
  /\ grid = EmptyGrid
  /\ colonies = <<>>
  /\ NEXT_ANT_ID = 0
  /\ ev = NoEv
  /\ \/ pheromones = EmptyField /\ steps = NoSteps
     \/ pheromones = HalfField /\ steps = [NoSteps EXCEPT !.start = "half"]
     \/ pheromones = FaintField /\ steps = [NoSteps EXCEPT !.start = "faint"]

FieldDeposit ==
  /\ steps.deposits + steps.decays < MaxFieldOps
  /\ \E p \in FieldPoints, ptype \in PheromoneType, amount \in DepositAmounts :
       /\ pheromones' = add_pheromone(pheromones, p[1], p[2], ptype, amount)
       /\ ev' = [NoEv EXCEPT !.op = "deposit", !.x = p[1], !.y = p[2],
                             !.ptype = ptype, !.amount = amount,
                             !.prePh = pheromones]
  /\ steps' = [steps EXCEPT !.deposits = @ + 1]
  /\ UNCHANGED <<grid, colonies, NEXT_ANT_ID>>

FieldDepositAtGrid ==
  /\ steps.deposits + steps.decays < MaxFieldOps
  /\ \E gx \in {1, PheromoneWidth}, ptype \in PheromoneType :
       /\ pheromones' = add_pheromone_at_grid(pheromones, gx, 0, ptype, ONE \div 2)
       /\ ev' = [NoEv EXCEPT !.op = "deposit_at_grid", !.x = gx, !.y = 0,
                             !.ptype = ptype, !.amount = ONE \div 2,
                             !.prePh = pheromones]
  /\ steps' = [steps EXCEPT !.deposits = @ + 1]
  /\ UNCHANGED <<grid, colonies, NEXT_ANT_ID>>

FieldDecay ==
  /\ \/ steps.deposits + steps.decays < MaxFieldOps
     \/ steps.deposits = 0 /\ steps.decays < MaxDecays
  /\ \E dt \in FieldDts :
       /\ pheromones' = PheromoneSystem_update(pheromones, dt)
       /\ ev' = [NoEv EXCEPT !.op = "decay", !.dt = dt, !.prePh = pheromones]
       /\ steps' = [steps EXCEPT !.decays = @ + 1, !.sumDt = @ + dt]
  /\ UNCHANGED <<grid, colonies, NEXT_ANT_ID>>

NextField == FieldDeposit \/ FieldDepositAtGrid \/ FieldDecay

SpecField == InitField /\ [][NextField]_vars

\* ------------------------------------------- properties of the scent field
\* The world rectangle [0, width) x [0, height).
InWorld(x, y) == 0 <= x /\ x < WorldW * PX /\ 0 <= y /\ y < WorldH * PX

\* The part of the world the field's cells cover.
InField(x, y) ==
  /\ 0 <= x /\ x < PheromoneWidth * CELL_SIZE
  /\ 0 <= y /\ y < PheromoneHeight * CELL_SIZE

DepositKey == <<ToCell(ev.x), ToCell(ev.y), ev.ptype>>

\* C4: after any sequence of deposits and decays, with any amounts, query
\* returns a value in [0, 1] at every position and for every kind.
C4_QueryInUnitInterval ==
  \A p \in FieldPoints, t \in PheromoneType :
    LET q == get_pheromone(pheromones, p[1], p[2], t)
    IN  0 <= q /\ q <= ONE

\* C5: a deposit at an in-bounds position whose entry holds s (0 if absent)
\* leaves that entry at exactly min(1.0, s + amount) and every other entry
\* as it was: no diffusion to another cell or to the other kind.
C5_DepositExactAndLocal ==
  (ev.op = "deposit" /\ InField(ev.x, ev.y)) =>
    LET s   == IF DepositKey \in DOMAIN ev.prePh THEN ev.prePh[DepositKey] ELSE 0
        sum == s + ev.amount
    IN  /\ DOMAIN pheromones = DOMAIN ev.prePh \cup {DepositKey}
        /\ pheromones[DepositKey] = IF sum > ONE THEN ONE ELSE sum
        /\ \A k \in DOMAIN ev.prePh \ {DepositKey} : pheromones[k] = ev.prePh[k]

\* C5 witness: the second of two deposits of 0.6 on one cell has saturated it
\* at 1.0, beside an entry of the other kind that is still what it was.
C5_TwoDepositsSaturate ==
  /\ ev.op = "deposit" /\ InField(ev.x, ev.y)
  /\ ev.amount = 6 * (ONE \div 10)
  /\ DepositKey \in DOMAIN ev.prePh
  /\ ev.prePh[DepositKey] = 6 * (ONE \div 10)
  /\ pheromones[DepositKey] = ONE
  /\ DOMAIN ev.prePh # {DepositKey}

C7_StoredAboveEpsilon ==
  \A k \in DOMAIN pheromones : pheromones[k] * 1000 > ONE

\* C8: at a position outside the world rectangle, negative coordinates
\* included, deposit leaves the field unchanged and query returns 0.0.
C8_OutsideWorldIgnored ==
  /\ (ev.op = "deposit" /\ ~InWorld(ev.x, ev.y)) => pheromones = ev.prePh
  /\ \A p \in FieldPoints, t \in PheromoneType :
       ~InWorld(p[1], p[2]) => get_pheromone(pheromones, p[1], p[2], t) = 0

\* The part of C8 that concerns positions at or beyond the right and bottom
\* edges only.
C8_BeyondFarEdgesIgnored ==
  /\ (ev.op = "deposit" /\ ev.x >= 0 /\ ev.y >= 0 /\ ~InWorld(ev.x, ev.y)) =>
       pheromones = ev.prePh
  /\ \A p \in FieldPoints, t \in PheromoneType :
       (p[1] >= 0 /\ p[2] >= 0 /\ ~InWorld(p[1], p[2])) =>
         get_pheromone(pheromones, p[1], p[2], t) = 0

\* ==================================================================== colony
\* #[derive(Default)] Colony: what std::mem::take leaves in a colony's slot.
DefaultColony ==
  [position |-> <<0, 0>>, radius |-> 0, ants |-> <<>>, food_stored |-> 0,
   max_ants |-> 0, food_deliveries |-> 0]

\* Colony::add_food thresholds and Colony::update spawn cost.
GROWTH_THRESHOLD == 100
MAX_ANTS_CEILING == 200
SPAWN_COST == 10
INITIAL_MAX_ANTS == 50
COLONY_RADIUS == 30 * PX

\* Colony::add_food with the cap raised only by the call that takes
\* food_stored across the growth threshold.
Colony_add_food_on_crossing(colony, amount) ==
  LET stored == colony.food_stored + amount
  IN  [colony EXCEPT
         !.food_stored = stored,
         !.food_deliveries = @ + 1,
         !.max_ants = IF /\ colony.food_stored <= GROWTH_THRESHOLD
                         /\ stored > GROWTH_THRESHOLD /\ @ < MAX_ANTS_CEILING
                      THEN @ + 1 ELSE @]

\* Colony::add_food(1.0)
Colony_add_food(colony, amount) ==
  LET stored == colony.food_stored + amount
  IN  [colony EXCEPT
         !.food_stored = stored,
         !.food_deliveries = @ + 1,
         !.max_ants = IF stored > GROWTH_THRESHOLD /\ @ < MAX_ANTS_CEILING
                      THEN @ + 1 ELSE @]

\* ======================================================================= ant
POSITION_RECORD_INTERVAL == 3
POSITION_HISTORY_SIZE == 30
CIRCLE_DETECTION_THRESHOLD == 10 * PX
NOMINAL_SPEED == 20
ESCAPE_SPEED == 5
SPEED_RESTORE_THRESHOLD == 1 * SEC
DEPOSIT_CADENCE == 5
CARRYING_DEPOSIT == 8 * (ONE \div 10)
SEARCHING_DEPOSIT == 3 * (ONE \div 10)
MARKER_DEPOSIT == 9 * (ONE \div 10)
PICKUP_IGNORE_TIME == 15 * SEC
ESCAPE_IGNORE_TIME == 25 * SEC
SEARCH_ESCAPE_IGNORE_TIME == 10 * SEC
CIRCLE_MIN_AGE == 15
\* The escape distance before it was reduced (the comment of line 570).
ESCAPE_DISTANCE_before == 40 * PX
ESCAPE_DISTANCE == 15 * PX
ESCAPE_STEP == 8 * PX
MARGIN == 10 * PX
STRICT_RADIUS == 50 * PX
LENIENT_RADIUS == 150 * PX
NEAR_RADIUS == 40 * PX

\* Jitter spans (the factor of (rand - 0.5)), in degrees.
HOMING_JITTER == 9
EXPLORE_JITTER == PI
WALL_JITTER == 11
LEAVE_JITTER == 29
ESCAPE_JITTER == 57
FOLLOW_JITTER == 11
FOLLOW_JITTER_CARRYING == 1
LOST_TURN == PI \div 2
LOST_TURN_CARRYING == (8 * PI) \div 10
SEARCH_ESCAPE_TURN == (3 * PI) \div 2

\* Ant::new(x, y), with the draw r for its heading and the value id that
\* NEXT_ANT_ID.fetch_add(1) returned.
Ant_new(x, y, r, id) ==
  [position |-> <<x, y>>,
   id |-> id,
   direction |-> (r * TWO_PI) \div 1000,
   speed |-> NOMINAL_SPEED,
   carrying_food |-> FALSE,
   home_position |-> <<x, y>>,
   pheromone_deposit_timer |-> 0,
   ignore_pheromones_timer |-> 0,
   position_history |-> <<>>,
   lifetime |-> 0,
   last_position_record |-> 0]

\* Colony::new(position, radius), with the draws for its ants' headings and
\* the value of NEXT_ANT_ID before it.
Colony_new(position, radius, rs, first_id) ==
  [position |-> position, radius |-> radius,
   ants |-> [i \in 1..Len(rs) |->
               Ant_new(position[1], position[2], rs[i], first_id + i - 1)],
   food_stored |-> 0, max_ants |-> INITIAL_MAX_ANTS, food_deliveries |-> 0]

\* dx * dx + dy * dy of two positions, in PX * PX.
DistSq(p, q) == (p[1] - q[1]) * (p[1] - q[1]) + (p[2] - q[2]) * (p[2] - q[2])

\* cos(direction) * length and sin(direction) * length.
StepX(direction, length) == TruncDiv(Cos(direction) * length, 1000)

StepY(direction, length) == TruncDiv(Sin(direction) * length, 1000)

\* The distance covered in delta_time at a speed, in PX.
Travel(speed, delta_time) == (speed * delta_time * PX) \div SEC

\* (angle_to_home + PI) % (2 * PI), the bearing from position to home.
HomeDirection(position, home) ==
  FRem(Atan2(position[2] - home[2], position[1] - home[1]) + PI, TWO_PI)

\* (target - direction + 3 * PI) % (2 * PI) - PI
AngleDiff(target, direction) == FRem(target - direction + 3 * PI, TWO_PI) - PI

\* What one Ant::update did, for the properties of a tick.
NoLog ==
  [colony |-> 0, ant |-> 0, carrying0 |-> FALSE, pos0 |-> <<0, 0>>,
   cell0 |-> "Empty", loop |-> FALSE, cadence |-> "none", homed |-> FALSE,
   explored |-> FALSE, followed |-> FALSE, found |-> FALSE,
   stepPos |-> <<0, 0>>, stepCarrying |-> FALSE, stepCell |-> "Empty",
   stepPh |-> EmptyField, branch |-> "none", seen |-> <<>>, delivered |-> 0,
   rehomed |-> FALSE, afterStepPos |-> <<0, 0>>, afterStepDir |-> 0,
   afterStepPh |-> EmptyField, bounced |-> "none", moveDir |-> 0,
   travelDir |-> 0, clampX |-> FALSE, clampY |-> FALSE,
   id |-> 0, timer |-> 0, timerAfter |-> 0, cadenceAt |-> <<0, 0>>,
   cadenceCarrying |-> FALSE, cadenceAmount |-> 0,
   cadencePh0 |-> EmptyField, cadencePh1 |-> EmptyField,
   passLen |-> -1, hits |-> 0, passPos0 |-> <<0, 0>>, passPos1 |-> <<0, 0>>,
   passDir1 |-> 0, passPh0 |-> EmptyField, passPh1 |-> EmptyField,
   passLen1 |-> 0, passSpeed1 |-> 0, passIgnore1 |-> 0,
   crossX |-> FALSE, crossY |-> FALSE, wallX |-> FALSE, wallY |-> FALSE,
   bounceDir |-> 0, movedPos |-> <<0, 0>>,
   ph0 |-> EmptyField, ph1 |-> EmptyField, food0 |-> <<>>, food1 |-> <<>>,
   decideTimer |-> 0, probed |-> 0, passOldest |-> 0]

\* A context is the agent being updated with the world it reads and writes:
\* [ant, ph (the scent field), colonies (Environment::get_colonies), log].
Bind(S, F(_)) == UNION {F(c) : c \in S}

\* The timers with the speed restored at the earlier threshold of 2.0 s.
UpdateTimers_restore_at_two(c, delta_time) ==
  LET ignore == c.ant.ignore_pheromones_timer - delta_time
  IN  [c EXCEPT
         !.ant.pheromone_deposit_timer = @ - delta_time,
         !.ant.ignore_pheromones_timer = ignore,
         !.ant.lifetime = @ + delta_time,
         !.ant.last_position_record = @ + delta_time,
         !.ant.speed = IF ignore <= 2 * SPEED_RESTORE_THRESHOLD /\ @ < NOMINAL_SPEED
                       THEN NOMINAL_SPEED ELSE @]

\* Ant::update, lines 69-79: the timers and the speed restore.
UpdateTimers(c, delta_time) ==
  LET ignore == c.ant.ignore_pheromones_timer - delta_time
  IN  [c EXCEPT
         !.ant.pheromone_deposit_timer = @ - delta_time,
         !.ant.ignore_pheromones_timer = ignore,
         !.ant.lifetime = @ + delta_time,
         !.ant.last_position_record = @ + delta_time,
         !.ant.speed = IF ignore <= SPEED_RESTORE_THRESHOLD /\ @ < NOMINAL_SPEED
                       THEN NOMINAL_SPEED ELSE @]

\* The escape of an agent carrying food as it was before the values of
\* lines 860, 863 and 878 were changed (20 s, speed 6, a step of 20 px).
EscapeCarrying_before(c, r) ==
  LET a   == c.ant
      dir == HomeDirection(a.position, a.home_position) + Jitter(r, ESCAPE_JITTER)
      pos == <<a.position[1] + StepX(dir, 20 * PX),
               a.position[2] + StepY(dir, 20 * PX)>>
  IN  [c EXCEPT
         !.ant.position_history = <<>>,
         !.ant.ignore_pheromones_timer = 20 * SEC,
         !.ant.speed = 6,
         !.ant.direction = dir,
         !.ant.position = pos,
         !.ph = add_pheromone(c.ph, pos[1], pos[2], "Home", MARKER_DEPOSIT),
         !.log.loop = TRUE]

\* detect_circles, lines 858-896: the escape of an agent carrying food.
EscapeCarrying(c, r) ==
  LET a   == c.ant
      dir == HomeDirection(a.position, a.home_position) + Jitter(r, ESCAPE_JITTER)
      pos == <<a.position[1] + StepX(dir, ESCAPE_STEP),
               a.position[2] + StepY(dir, ESCAPE_STEP)>>
  IN  [c EXCEPT
         !.ant.position_history = <<>>,
         !.ant.ignore_pheromones_timer = ESCAPE_IGNORE_TIME,
         !.ant.speed = ESCAPE_SPEED,
         !.ant.direction = dir,
         !.ant.position = pos,
         !.ph = add_pheromone(c.ph, pos[1], pos[2], "Home", MARKER_DEPOSIT),
         !.log.loop = TRUE]

\* detect_circles, lines 897-912: the escape of a searching agent.
EscapeSearching(c, r) ==
  [c EXCEPT
     !.ant.position_history = <<>>,
     !.ant.ignore_pheromones_timer = SEARCH_ESCAPE_IGNORE_TIME,
     !.ant.direction =
        FRem(@ + Jitter(r, SEARCH_ESCAPE_TURN) + TWO_PI, TWO_PI),
     !.log.loop = TRUE]

\* Whether a history record makes detect_circles fire (lines 834-854).
CircleRecord(a, record) ==
  /\ a.lifetime - record.time > CIRCLE_MIN_AGE
  /\ DistSq(a.position, record.position)
       < CIRCLE_DETECTION_THRESHOLD * CIRCLE_DETECTION_THRESHOLD
  /\ a.lifetime - record.time > CIRCLE_MIN_AGE

\* The records of the history that make detect_circles fire.
Hits(a) ==
  {i \in 1..Len(a.position_history) : CircleRecord(a, a.position_history[i])}

\* detect_circles with an escape for every record that qualifies.
detect_circles_every_hit(c) ==
  LET a == c.ant
      once == IF a.carrying_food THEN {EscapeCarrying(c, r) : r \in Rand}
              ELSE {EscapeSearching(c, r) : r \in Rand}
  IN  IF Len(a.position_history) < 5 \/ Hits(a) = {} THEN {c}
      ELSE IF Cardinality(Hits(a)) = 1 THEN once
      ELSE IF a.carrying_food
      THEN {EscapeCarrying(e, r) : e \in once, r \in Rand}
      ELSE {EscapeSearching(e, r) : e \in once, r \in Rand}

\* Ant::detect_circles: the escape of the first record that qualifies, and
\* the return after it (line 914).
detect_circles(c) ==
  LET a == c.ant
  IN  IF Len(a.position_history) < 5 \/ Hits(a) = {} THEN {c}
      ELSE IF a.carrying_food THEN {EscapeCarrying(c, r) : r \in Rand}
      ELSE {EscapeSearching(c, r) : r \in Rand}

\* Ant::update, lines 81-97: the position history.  The log keeps what the
\* detection pass of line 96 started from and what it left.
RecordPosition(c) ==
  LET a == c.ant
  IN  IF a.carrying_food /\ a.last_position_record >= POSITION_RECORD_INTERVAL
      THEN LET pushed == Append(a.position_history,
                                [position |-> a.position, time |-> a.lifetime])
               kept   == IF Len(pushed) > POSITION_HISTORY_SIZE
                         THEN Tail(pushed) ELSE pushed
               before == [c EXCEPT !.ant.position_history = kept,
                                   !.ant.last_position_record = 0]
           IN  {[n EXCEPT !.log.passLen = Len(kept),
                          !.log.passOldest = Head(kept).time,
                          !.log.hits = Cardinality(Hits(before.ant)),
                          !.log.passPos0 = a.position,
                          !.log.passPh0 = c.ph,
                          !.log.passPos1 = n.ant.position,
                          !.log.passDir1 = n.ant.direction,
                          !.log.passPh1 = n.ph,
                          !.log.passLen1 = Len(n.ant.position_history),
                          !.log.passSpeed1 = n.ant.speed,
                          !.log.passIgnore1 = n.ant.ignore_pheromones_timer]
                  : n \in detect_circles(before)}
      ELSE {c}

\* Ant::update, lines 126-159, with the timer never reset.
CadenceDeposit_without_reset(c) ==
  LET a == c.ant
      seen == [c EXCEPT !.log.timer = a.pheromone_deposit_timer,
                        !.log.timerAfter = a.pheromone_deposit_timer,
                        !.log.cadenceAt = a.position,
                        !.log.cadenceCarrying = a.carrying_food,
                        !.log.cadencePh0 = c.ph,
                        !.log.cadencePh1 = c.ph]
  IN  IF a.pheromone_deposit_timer <= 0
      THEN LET ptype    == IF a.carrying_food THEN "Home" ELSE "Food"
               strength == IF a.carrying_food THEN CARRYING_DEPOSIT
                           ELSE SEARCHING_DEPOSIT
               ph       == add_pheromone(c.ph, a.position[1], a.position[2],
                                         ptype, strength)
           IN  [seen EXCEPT
                  !.ph = ph,
                  !.log.cadence = ptype,
                  !.log.cadenceAmount = strength,
                  !.log.cadencePh1 = ph]
      ELSE seen

\* Ant::update, lines 126-159: the cadence deposit.  The log keeps what the
\* test of line 127 read (timer, position, carrying flag, field) and what
\* the block left (timerAfter, cadence, cadenceAmount, cadencePh1).
CadenceDeposit(c) ==
  LET a == c.ant
      seen == [c EXCEPT !.log.timer = a.pheromone_deposit_timer,
                        !.log.timerAfter = a.pheromone_deposit_timer,
                        !.log.cadenceAt = a.position,
                        !.log.cadenceCarrying = a.carrying_food,
                        !.log.cadencePh0 = c.ph,
                        !.log.cadencePh1 = c.ph]
  IN  IF a.pheromone_deposit_timer <= 0
      THEN LET ptype    == IF a.carrying_food THEN "Home" ELSE "Food"
               strength == IF a.carrying_food THEN CARRYING_DEPOSIT
                           ELSE SEARCHING_DEPOSIT
               ph       == add_pheromone(c.ph, a.position[1], a.position[2],
                                         ptype, strength)
           IN  [seen EXCEPT
                  !.ant.pheromone_deposit_timer = DEPOSIT_CADENCE,
                  !.ph = ph,
                  !.log.timerAfter = DEPOSIT_CADENCE,
                  !.log.cadence = ptype,
                  !.log.cadenceAmount = strength,
                  !.log.cadencePh1 = ph]
      ELSE seen

CadenceDepositAfter(S) == {CadenceDeposit(c) : c \in S}

\* direction += angle_diff * homing_factor, homing_factor in 1/100.
Blend(direction, target, factor) ==
  direction + TruncDiv(AngleDiff(target, direction) * factor, 100)

\* Ant::update, lines 161-193: the homing bias of an agent carrying food.
Homing(c) ==
  LET a == c.ant
  IN  IF a.carrying_food /\ DistSq(a.position, a.home_position) > (PX * PX) \div 10
      THEN LET home_direction == HomeDirection(a.position, a.home_position)
               factors == IF a.ignore_pheromones_timer > 0 THEN {85}
                          ELSE {IF r < 450 THEN 70 ELSE 30 : r \in Rand}
           IN  {[c EXCEPT
                   !.ant.direction =
                      Blend(a.direction, home_direction, f) + Jitter(r, HOMING_JITTER),
                   !.log.homed = TRUE] : f \in factors, r \in Rand}
      ELSE {c}

\* find_strongest_pheromone_direction: the sampling distances, in pixels.
CarryingPoints == <<5, 12, 20, 32, 40>>

StandardPoints == <<5, 10, 20, 30, 40>>

\* The detection thresholds 0.002 and 0.05.
HOME_THRESHOLD == 2 * (ONE \div 1000)
STANDARD_THRESHOLD == 5 * (ONE \div 100)
BACK_ANGLE == (4 * PI) \div 10

\* The angle of candidate i of num_directions, relative to the heading:
\* (i / n - 0.5) * PI * 0.67 while carrying, (i / n) * 2 * PI otherwise.
BiasedAngle(carrying, i, num_directions) ==
  IF carrying
  THEN TruncDiv((2 * i - num_directions) * 1206, 20 * num_directions)
  ELSE (i * TWO_PI) \div num_directions

\* The largest number of a non-empty finite set of numbers.
Max(S) == CHOOSE v \in S : \A m \in S : m <= v

\* Ant::find_strongest_pheromone_direction: [found, dir], with the largest
\* strength get_pheromone returned to it (probed).
find_strongest_pheromone_direction(a, ph, ptype, num_directions) ==
  LET threshold == IF a.carrying_food /\ ptype = "Home" THEN HOME_THRESHOLD
                   ELSE STANDARD_THRESHOLD
      points == IF a.carrying_food THEN CarryingPoints ELSE StandardPoints
      world_angle(i) ==
        FRem(a.direction + BiasedAngle(a.carrying_food, i, num_directions), TWO_PI)
      skipped(i) ==
        /\ a.carrying_food
        /\ LET angle_diff == Abs(world_angle(i) - a.direction) % TWO_PI
           IN  angle_diff > BACK_ANGLE /\ angle_diff < TWO_PI - BACK_ANGLE
      direction_bias(i) ==
        IF a.carrying_food
        THEN LET forward == Abs((Abs(world_angle(i) - a.direction + PI) % TWO_PI) - PI)
             IN  (forward * (ONE \div 10)) \div PI
        ELSE 0
      strength(i, j) ==
        get_pheromone(ph, a.position[1] + StepX(world_angle(i), points[j] * PX),
                          a.position[2] + StepY(world_angle(i), points[j] * PX), ptype)
      count == num_directions * 5
      \* sample k is direction (k - 1) \div 5 at distance ((k - 1) % 5) + 1:
      \* the pairs <<k, biased strength>> above the threshold
      \* and the strength read, <<k, biased strength, strength>>
      sample(k) ==
        LET i == (k - 1) \div 5
        IN  IF skipped(i) THEN <<k, threshold, 0>>
            ELSE LET s == strength(i, ((k - 1) % 5) + 1)
                 IN  <<k, s + direction_bias(i), s>>
      samples == {sample(k) : k \in 1..count}
      above == {s \in samples : s[2] > threshold}
      probed == Max({s[3] : s \in samples})
  IN  IF above = {} THEN [found |-> FALSE, dir |-> 0, probed |-> probed]
      ELSE LET best == CHOOSE s \in above :
                         \A m \in above :
                           m[2] < s[2] \/ (m[2] = s[2] /\ s[1] <= m[1])
           IN  [found |-> TRUE, dir |-> world_angle((best[1] - 1) \div 5),
                probed |-> probed]

\* Ant::follow_pheromones
follow_pheromones(c) ==
  LET a == c.ant
      ptype == IF a.carrying_food THEN "Home" ELSE "Food"
      num_directions == IF a.carrying_food THEN 6 ELSE 12
      best == find_strongest_pheromone_direction(a, c.ph, ptype, num_directions)
      followed == [c EXCEPT !.log.followed = TRUE, !.log.found = best.found,
                            !.log.probed = best.probed]
  IN  IF best.found
      THEN LET angle_diff == AngleDiff(best.dir, a.direction)
               forward_angle_limit == IF a.carrying_food THEN PI \div 2
                                      ELSE (2 * PI) \div 3
               turn_rate == IF a.carrying_food THEN 10 ELSE 70
               turned == IF Abs(angle_diff) < forward_angle_limit
                         THEN {Blend(a.direction, best.dir, turn_rate)}
                         ELSE {IF r < 100 THEN Blend(a.direction, best.dir, 40)
                               ELSE a.direction : r \in Rand}
               span == IF a.carrying_food THEN FOLLOW_JITTER_CARRYING
                       ELSE FOLLOW_JITTER
           IN  {[followed EXCEPT !.ant.direction = d + Jitter(r, span)] :
                  d \in turned, r \in Rand}
      ELSE LET random_chance == IF a.carrying_food THEN 800 ELSE 400
               span == IF a.carrying_food THEN LOST_TURN_CARRYING ELSE LOST_TURN
           IN  {[followed EXCEPT !.ant.direction =
                   IF r < random_chance THEN @ + Jitter(q, span) ELSE @] :
                  r \in Rand, q \in Rand}

\* Ant::update, lines 195-202, with the scent field followed whatever the
\* ignore timer is.
Decide_without_timer(c, delta_time) ==
  LET d       == [c EXCEPT !.log.decideTimer = c.ant.ignore_pheromones_timer]
      explore == {[d EXCEPT !.ant.direction = @ + Jitter(q, EXPLORE_JITTER),
                            !.log.explored = TRUE] : q \in Rand}
      follow  == follow_pheromones(d)
  IN  UNION {IF r * SEC < 50 * delta_time THEN explore
             ELSE UNION {IF q < 900 THEN follow ELSE {d} : q \in Rand}
               : r \in Rand}

\* Ant::update, lines 195-202: explore, or else follow the scent field.  The
\* log keeps the ignore timer the test of line 200 read.
Decide(c, delta_time) ==
  LET d       == [c EXCEPT !.log.decideTimer = c.ant.ignore_pheromones_timer]
      explore == {[d EXCEPT !.ant.direction = @ + Jitter(q, EXPLORE_JITTER),
                            !.log.explored = TRUE] : q \in Rand}
      follow  == follow_pheromones(d)
  IN  UNION {IF r * SEC < 50 * delta_time THEN explore
             ELSE IF d.ant.ignore_pheromones_timer <= 0
             THEN UNION {IF q < 900 THEN follow ELSE {d} : q \in Rand}
             ELSE {d} : r \in Rand}

\* The first colony of the list within radius of position, 0 if none
\* (the `for colony in ... { if distance_squared < r * r { ...; break; } }`).
FirstWithin(list, position, radius) ==
  LET within == {i \in 1..Len(list) :
                   DistSq(position, list[i].position) < radius * radius}
  IN  IF within = {} THEN 0 ELSE CHOOSE i \in within : \A m \in within : i <= m

\* The closest colony of the list, the first of equally close ones, 0 for an
\* empty list (check_for_food, lines 626-640).
Closest(list, position) ==
  IF Len(list) = 0 THEN 0
  ELSE CHOOSE i \in 1..Len(list) :
         \A m \in 1..Len(list) :
           LET di == DistSq(position, list[i].position)
               dm == DistSq(position, list[m].position)
           IN  di < dm \/ (di = dm /\ i <= m)

\* A pickup marker of the kind the deliveries deposit.
PickupMarkerHome == "Home"

\* The kind of the strong marker a pickup deposits (line 551).
PickupMarker == "Food"

\* check_for_food, lines 538-583: a searching agent on a Food cell.
Pickup(c, r) ==
  LET a   == c.ant
      dir == HomeDirection(a.position, a.home_position) + Jitter(r, LEAVE_JITTER)
  IN  [c EXCEPT
         !.ant.carrying_food = TRUE,
         !.ant.ignore_pheromones_timer = PICKUP_IGNORE_TIME,
         !.ph = add_pheromone(c.ph, a.position[1], a.position[2],
                              PickupMarker, MARKER_DEPOSIT),
         !.ant.direction = dir,
         !.ant.position = <<a.position[1] + StepX(dir, ESCAPE_DISTANCE),
                            a.position[2] + StepY(dir, ESCAPE_DISTANCE)>>,
         !.log.branch = "pickup"]

\* Reverse direction with a variation, after a deposit of the strong marker
\* (lines 674-686 and 711-723).
LeaveNest(c, r) ==
  [c EXCEPT
     !.ph = add_pheromone(c.ph, c.ant.position[1], c.ant.position[2],
                          "Home", MARKER_DEPOSIT),
     !.ant.direction = FRem(@ + PI, TWO_PI) + Jitter(r, LEAVE_JITTER)]

\* check_for_food, lines 586-687: an agent carrying food on a Nest cell.
NestDelivery(c, r) ==
  LET a       == c.ant
      strict  == FirstWithin(c.colonies, a.position, STRICT_RADIUS)
      closest == Closest(c.colonies, a.position)
      lenient == /\ closest # 0
                 /\ DistSq(a.position, c.colonies[closest].position)
                      < LENIENT_RADIUS * LENIENT_RADIUS
      target  == IF strict # 0 THEN strict ELSE IF lenient THEN closest ELSE 0
      rehome  == strict = 0 /\ closest # 0 /\ ~lenient
      d       == [c EXCEPT
                    !.ant.carrying_food = FALSE,
                    !.colonies =
                       IF target = 0 THEN @
                       ELSE [@ EXCEPT ![target] = Colony_add_food(@, 1)],
                    !.ant.home_position =
                       IF rehome THEN c.colonies[closest].position ELSE @,
                    !.log.branch = "nest",
                    !.log.delivered = target,
                    !.log.rehomed = rehome]
  IN  LeaveNest(d, r)

\* check_for_food, lines 689-729: an agent carrying food off the nest cells.
NearDelivery(c) ==
  LET a      == c.ant
      target == FirstWithin(c.colonies, a.position, NEAR_RADIUS)
  IN  IF target = 0 THEN {c}
      ELSE {LeaveNest([c EXCEPT
                         !.ant.carrying_food = FALSE,
                         !.colonies = [@ EXCEPT ![target] = Colony_add_food(@, 1)],
                         !.log.branch = "near",
                         !.log.delivered = target], r) : r \in Rand}

\* Ant::check_for_food
check_for_food(c, g) ==
  LET a    == c.ant
      cell == screen_to_grid(a.position[1], a.position[2])
      kind == get_cell(g, cell[1], cell[2])
      at   == [c EXCEPT
                 !.log.stepPos = a.position,
                 !.log.stepCarrying = a.carrying_food,
                 !.log.stepCell = kind,
                 !.log.stepPh = c.ph,
                 !.log.seen = [i \in 1..Len(c.colonies) |-> c.colonies[i].position]]
      done == IF ~a.carrying_food /\ kind = "Food"
              THEN {Pickup(at, r) : r \in Rand}
              ELSE IF a.carrying_food /\ kind = "AntNest"
              THEN {NestDelivery(at, r) : r \in Rand}
              ELSE IF a.carrying_food THEN NearDelivery(at)
              ELSE {at}
  IN  {[n EXCEPT !.log.afterStepPos = n.ant.position,
                 !.log.afterStepDir = n.ant.direction,
                 !.log.afterStepPh = n.ph] : n \in done}

\* The heading after a collision, with the vertical test taken first.
Bounce_vertical_first(direction, horizontal_wall, vertical_wall) ==
  IF vertical_wall THEN -direction
  ELSE IF horizontal_wall THEN PI - direction
  ELSE FRem(direction + PI, TWO_PI)

\* The heading after a collision with a Wall cell (lines 222-237).
Bounce(direction, horizontal_wall, vertical_wall) ==
  IF horizontal_wall THEN PI - direction
  ELSE IF vertical_wall THEN -direction
  ELSE FRem(direction + PI, TWO_PI)

\* Ant::update, lines 207-251: the move and the wall collision.
Move(c, g, delta_time) ==
  LET a      == c.ant
      travel == Travel(a.speed, delta_time)
      next   == <<a.position[1] + StepX(a.direction, travel),
                  a.position[2] + StepY(a.direction, travel)>>
      cell   == screen_to_grid(next[1], next[2])
      m      == [c EXCEPT !.log.moveDir = a.direction,
                          !.log.travelDir = a.direction,
                          !.log.movedPos = next]
  IN  IF get_cell(g, cell[1], cell[2]) = "Wall"
      THEN LET current == screen_to_grid(a.position[1], a.position[2])
               horizontal_wall == /\ current[1] # cell[1]
                                  /\ get_cell(g, cell[1], current[2]) = "Wall"
               vertical_wall   == /\ current[2] # cell[2]
                                  /\ get_cell(g, current[1], cell[2]) = "Wall"
               bounced == Bounce(a.direction, horizontal_wall, vertical_wall)
           IN  {LET dir == bounced + Jitter(r, WALL_JITTER)
                    pos == <<a.position[1] + StepX(dir, travel),
                             a.position[2] + StepY(dir, travel)>>
                IN  [m EXCEPT
                       !.ant.direction = dir,
                       !.ant.position = pos,
                       !.log.travelDir = dir,
                       !.log.movedPos = pos,
                       !.log.bounceDir = bounced,
                       !.log.crossX = current[1] # cell[1],
                       !.log.crossY = current[2] # cell[2],
                       !.log.wallX = get_cell(g, cell[1], current[2]) = "Wall",
                       !.log.wallY = get_cell(g, current[1], cell[2]) = "Wall",
                       !.log.bounced = IF horizontal_wall THEN "x"
                                       ELSE IF vertical_wall THEN "y" ELSE "both"]
                  : r \in Rand}
      ELSE {[m EXCEPT !.ant.position = next]}

\* The boundary check with the vertical test chained to the horizontal one
\* by `else if`.
Clamp_one_axis(c) ==
  LET a    == c.ant
      maxX == WorldW * PX - MARGIN
      maxY == WorldH * PX - MARGIN
      offX == a.position[1] < MARGIN \/ a.position[1] > maxX
      offY == ~offX /\ (a.position[2] < MARGIN \/ a.position[2] > maxY)
      x    == IF a.position[1] < MARGIN THEN MARGIN
              ELSE IF a.position[1] > maxX THEN maxX ELSE a.position[1]
      y    == IF ~offY THEN a.position[2]
              ELSE IF a.position[2] < MARGIN THEN MARGIN ELSE maxY
      dirX == IF offX THEN PI - a.direction ELSE a.direction
  IN  [c EXCEPT
         !.ant.position = <<x, y>>,
         !.ant.direction = IF offY THEN -dirX ELSE dirX,
         !.log.clampX = offX,
         !.log.clampY = offY]

\* Ant::update, lines 253-272: the boundary check.
Clamp(c) ==
  LET a    == c.ant
      maxX == WorldW * PX - MARGIN
      maxY == WorldH * PX - MARGIN
      offX == a.position[1] < MARGIN \/ a.position[1] > maxX
      offY == a.position[2] < MARGIN \/ a.position[2] > maxY
      x    == IF a.position[1] < MARGIN THEN MARGIN
              ELSE IF a.position[1] > maxX THEN maxX ELSE a.position[1]
      y    == IF a.position[2] < MARGIN THEN MARGIN
              ELSE IF a.position[2] > maxY THEN maxY ELSE a.position[2]
      dirX == IF offX THEN PI - a.direction ELSE a.direction
  IN  [c EXCEPT
         !.ant.position = <<x, y>>,
         !.ant.direction = IF offY THEN -dirX ELSE dirX,
         !.log.clampX = offX,
         !.log.clampY = offY]

\* Ant::update: the contexts one update of c.ant can end in.
Ant_update(c, g, delta_time) ==
  LET a      == c.ant
      cell   == screen_to_grid(a.position[1], a.position[2])
      start  == [c EXCEPT !.log.carrying0 = a.carrying_food,
                          !.log.pos0 = a.position,
                          !.log.cell0 = get_cell(g, cell[1], cell[2])]
      timed  == CadenceDepositAfter(RecordPosition(UpdateTimers(start, delta_time)))
      homed  == Bind(timed, Homing)
      LET_decide(x) == Decide(x, delta_time)
      LET_check(x) == check_for_food(x, g)
      LET_move(x) == Move(x, g, delta_time)
      moved  == Bind(Bind(Bind(homed, LET_decide), LET_check), LET_move)
  IN  {Clamp(x) : x \in moved}

\* food_stored of every colony while colony i is held outside the list.
Foods(self, list, i) ==
  [j \in 1..Len(list) |-> IF j = i THEN self.food_stored ELSE list[j].food_stored]

\* A world is [self (the colony being updated, held outside the list),
\* ph, colonies (the list, with self's slot holding the default colony),
\* logs (one record for each Ant::update so far in the tick)].
RECURSIVE UpdateAnts(_, _, _, _, _)
\* Colony::update, lines 40-42: `for ant in &mut self.ants`, from ant j on.
UpdateAnts(w, g, delta_time, i, j) ==
  IF j > Len(w.self.ants) THEN {w}
  ELSE LET c0 == [ant |-> w.self.ants[j], ph |-> w.ph, colonies |-> w.colonies,
                  log |-> [NoLog EXCEPT !.colony = i, !.ant = j,
                                        !.id = w.self.ants[j].id]]
       IN  UNION {UpdateAnts([w EXCEPT !.self.ants[j] = c.ant,
                                       !.ph = c.ph,
                                       !.colonies = c.colonies,
                                       !.logs = Append(@,
                                          [c.log EXCEPT
                                             !.ph0 = w.ph,
                                             !.ph1 = c.ph,
                                             !.food0 = Foods(w.self, w.colonies, i),
                                             !.food1 = Foods(w.self, c.colonies, i)])],
                             g, delta_time, i, j + 1)
                    : c \in Ant_update(c0, g, delta_time)}

\* The spawn of Colony::update with the new agent put at the head of the
\* list.
Spawn_at_head(colony, next_id) ==
  IF Len(colony.ants) < colony.max_ants /\ colony.food_stored > SPAWN_COST
  THEN {[colony EXCEPT
           !.ants = <<Ant_new(colony.position[1], colony.position[2],
                              r, next_id)>> \o @,
           !.food_stored = @ - SPAWN_COST] : r \in Rand}
  ELSE {colony}

\* The spawn of Colony::update with the test `food_stored >= 10.0`.
Spawn_at_cost(colony, next_id) ==
  IF Len(colony.ants) < colony.max_ants /\ colony.food_stored >= SPAWN_COST
  THEN {[colony EXCEPT
           !.ants = Append(@, Ant_new(colony.position[1], colony.position[2],
                                      r, next_id)),
           !.food_stored = @ - SPAWN_COST] : r \in Rand}
  ELSE {colony}

\* Colony::update, lines 46-49: the spawn of one agent, whose id is next_id.
Spawn(colony, next_id) ==
  IF Len(colony.ants) < colony.max_ants /\ colony.food_stored > SPAWN_COST
  THEN {[colony EXCEPT
           !.ants = Append(@, Ant_new(colony.position[1], colony.position[2],
                                      r, next_id)),
           !.food_stored = @ - SPAWN_COST] : r \in Rand}
  ELSE {colony}

\* Colony::update of the colony taken from slot i.  checks records what the
\* spawn test of line 46 read (population, max_ants, food_stored, the field
\* at that moment, how many Ant::update calls the tick had made) and what
\* lines 47-48 left.
Colony_update(w, g, delta_time, i) ==
  UNION {{[u EXCEPT
             !.self = spawned,
             !.next_id = IF Len(spawned.ants) > Len(u.self.ants) THEN @ + 1 ELSE @,
             !.checks = Append(@, [colony |-> i,
                                   population |-> Len(u.self.ants),
                                   max_ants |-> u.self.max_ants,
                                   food_stored |-> u.self.food_stored,
                                   ph |-> u.ph,
                                   updates |-> Len(u.logs),
                                   spawned |-> Len(spawned.ants) > Len(u.self.ants),
                                   population_after |-> Len(spawned.ants),
                                   food_after |-> spawned.food_stored,
                                   last |-> IF spawned.ants = <<>> THEN <<>>
                                            ELSE <<spawned.ants[Len(spawned.ants)]>>])]
            : spawned \in Spawn(u.self, u.next_id)}
           : u \in UpdateAnts(w, g, delta_time, i, 1)}

RECURSIVE UpdateColonies(_, _, _, _)
\* Environment::update, lines 54-64: the colonies from index i on, each
\* taken out of the list (std::mem::take), updated and put back.
UpdateColonies(w, g, delta_time, i) ==
  IF i > Len(w.colonies) THEN {w}
  ELSE LET taken == [w EXCEPT !.self = w.colonies[i],
                              !.colonies[i] = DefaultColony]
       IN  UNION {UpdateColonies([u EXCEPT !.colonies[i] = u.self],
                                 g, delta_time, i + 1)
                    : u \in Colony_update(taken, g, delta_time, i)}

\* Environment::update with the scent field decayed after the colonies.
Environment_update_decay_last(g, ph, list, next_id, delta_time) ==
  {[w EXCEPT !.ph = PheromoneSystem_update(@, delta_time)] :
     w \in UpdateColonies([self |-> DefaultColony, ph |-> ph,
                           colonies |-> list, next_id |-> next_id,
                           logs |-> <<>>, checks |-> <<>>], g, delta_time, 1)}

\* Environment::update
Environment_update(g, ph, list, next_id, delta_time) ==
  UpdateColonies([self |-> DefaultColony,
                  ph |-> PheromoneSystem_update(ph, delta_time),
                  colonies |-> list, next_id |-> next_id,
                  logs |-> <<>>, checks |-> <<>>], g, delta_time, 1)

\* ------------------------------------------------------------ terrain edits
\* Environment::add_wall
add_wall(g, x, y) ==
  LET cell == screen_to_grid(x, y)
  IN  IF is_valid_position(cell[1], cell[2])
      THEN set_cell(g, cell[1], cell[2], "Wall") ELSE g

\* Environment::add_food (the food_amounts map is never read by the update)
add_food(g, x, y) ==
  LET cell == screen_to_grid(x, y)
  IN  IF is_valid_position(cell[1], cell[2])
      THEN set_cell(g, cell[1], cell[2], "Food") ELSE g

\* Environment::remove_object
remove_object(g, x, y) ==
  LET cell == screen_to_grid(x, y)
  IN  IF is_valid_position(cell[1], cell[2])
      THEN set_cell(g, cell[1], cell[2], "Empty") ELSE g

\* Environment::add_ant_nest, lines 130-139: the 3 x 3 stamp.
StampNest(g, grid_x, grid_y) ==
  LET stamped == {<<grid_x + dx, grid_y + dy>> : dx \in -1..1, dy \in -1..1}
      inside  == {n \in stamped : n[1] >= 0 /\ n[1] < GridWidth
                                  /\ n[2] >= 0 /\ n[2] < GridHeight}
  IN  [n \in DOMAIN g \cup inside |-> IF n \in inside THEN "AntNest" ELSE g[n]]

\* Environment::add_ant_nest, lines 142-143: the colony's position.
NestCentre(grid_x, grid_y) ==
  <<(2 * grid_x + 1) * (CELL_SIZE \div 2), (2 * grid_y + 1) * (CELL_SIZE \div 2)>>

\* Environment::add_ant_nest: the stamp and the new colony, whose ten agents
\* draw the headings rs and the ids from next_id on.
add_ant_nest(g, list, next_id, x, y, rs) ==
  LET cell == screen_to_grid(x, y)
  IN  IF is_valid_position(cell[1], cell[2])
      THEN [grid |-> StampNest(g, cell[1], cell[2]),
            colonies |-> Append(list, Colony_new(NestCentre(cell[1], cell[2]),
                                                 COLONY_RADIUS, rs, next_id)),
            next_id |-> next_id + Len(rs)]
      ELSE [grid |-> g, colonies |-> list, next_id |-> next_id]

\* ------------------------------------------------------- a restored world
\* SavedAnt::to_ant: Ant::new and the six saved fields set.
to_ant(saved, id) ==
  [Ant_new(saved.position[1], saved.position[2], 0, id) EXCEPT
     !.direction = saved.direction,
     !.speed = saved.speed,
     !.carrying_food = saved.carrying_food,
     !.home_position = saved.home_position,
     !.pheromone_deposit_timer = saved.pheromone_deposit_timer]

\* Colony::new pushes ten agents (line 31).
INITIAL_ANTS == 10

\* SavedColony::to_colony, with the value of NEXT_ANT_ID before it:
\* Colony::new draws INITIAL_ANTS ids for the agents that clear_ants drops.
to_colony(saved, first_id) ==
  [Colony_new(saved.position, COLONY_RADIUS, <<>>, first_id) EXCEPT
     !.ants = [i \in 1..Len(saved.ants) |->
                 to_ant(saved.ants[i], first_id + INITIAL_ANTS + i - 1)],
     !.food_stored = saved.food_stored,
     !.max_ants = saved.max_ants,
     !.food_deliveries = saved.food_deliveries]

\* SavedAnt::from_ant: the six fields a save keeps of an agent.
from_ant(ant) ==
  [position |-> ant.position, direction |-> ant.direction, speed |-> ant.speed,
   carrying_food |-> ant.carrying_food, home_position |-> ant.home_position,
   pheromone_deposit_timer |-> ant.pheromone_deposit_timer]

\* SavedColony::from_colony
from_colony(colony) ==
  [position |-> colony.position,
   ants |-> [i \in 1..Len(colony.ants) |-> from_ant(colony.ants[i])],
   food_stored |-> colony.food_stored, max_ants |-> colony.max_ants,
   food_deliveries |-> colony.food_deliveries]

RECURSIVE AddAll(_, _)
\* SavedEnvironment::to_environment, lines 171-178: add_pheromone_at_grid for
\* every saved entry <<key, strength>>, in the order the save lists them.
AddAll(ph, entries) ==
  IF entries = {} THEN ph
  ELSE LET e == CHOOSE n \in entries : TRUE
       IN  AddAll(add_pheromone_at_grid(ph, e[1][1], e[1][2], e[1][3], e[2]),
                  entries \ {e})

\* ================================================================ the world
\* The worlds a behaviour starts from are restored saves
\* (SavedEnvironment::to_environment): nests placed at NestA and NestB with
\* their colonies, one Food cell, one Wall cell, and one agent, owned by one
\* of the colonies, whose home is its colony.  The agent starts on a cell of
\* either nest, on the Food cell, in front of the Wall cell, or in the open.
NestA == <<19, 2>>

NestB == <<8, 2>>

FoodCell == <<17, 2>>

WallCell == <<12, 1>>

Layouts == {<<NestA>>, <<NestA, NestB>>, <<NestB, NestA>>}

RECURSIVE IdsBefore(_, _)
\* The value of NEXT_ANT_ID when to_environment restores colony i of saved.
IdsBefore(saved, i) ==
  IF i = 1 THEN 0
  ELSE IdsBefore(saved, i - 1) + INITIAL_ANTS + Len(saved[i - 1].ants)

\* SavedEnvironment::to_environment, lines 180-184: the colonies.
Restored(saved) ==
  [i \in 1..Len(saved) |-> to_colony(saved[i], IdsBefore(saved, i))]

\* SavedEnvironment::from_environment then to_environment, in one run of the
\* program: [grid, ph, colonies, next_id].  The grid vector is cloned both
\* ways; the field is rebuilt from its saved entries; every colony is built
\* by Colony::new and its agents by Ant::new, which draw new ids.
Reloaded(g, ph, list, next_id) ==
  LET saved == [i \in 1..Len(list) |-> from_colony(list[i])]
  IN  [grid |-> g,
       ph |-> AddAll(EmptyField, {<<k, ph[k]>> : k \in DOMAIN ph}),
       colonies |-> [i \in 1..Len(saved) |->
                       to_colony(saved[i], next_id + IdsBefore(saved, i))],
       next_id |-> next_id + IdsBefore(saved, Len(saved) + 1)]

RECURSIVE StampAll(_, _)
StampAll(g, nests) ==
  IF nests = <<>> THEN g
  ELSE StampAll(StampNest(g, Head(nests)[1], Head(nests)[2]), Tail(nests))

Terrain(nests) ==
  StampAll(add_wall(add_food(EmptyGrid, FoodCell[1] * CELL_SIZE, FoodCell[2] * CELL_SIZE),
                    WallCell[1] * CELL_SIZE, WallCell[2] * CELL_SIZE), nests)

StartPositions ==
  {<<185 * PX, 25 * PX>>, NestCentre(NestB[1], NestB[2]),
   NestCentre(FoodCell[1], FoodCell[2]),
   <<118 * PX, 18 * PX>>, <<150 * PX, 25 * PX>>}

StartDirections == {0, 200}

\* Time steps of a tick: 0.1 s and 0.5 s.
TickDts == {1, 5}

SavedColonies(nests, owner, ant) ==
  [i \in 1..Len(nests) |->
     [position |-> NestCentre(nests[i][1], nests[i][2]),
      ants |-> IF i = owner
               THEN <<[ant EXCEPT !.home_position = NestCentre(nests[i][1], nests[i][2])]>>
               ELSE <<>>,
      food_stored |-> 0, max_ants |-> INITIAL_MAX_ANTS, food_deliveries |-> 0]]

Init ==
  /\ pheromones = EmptyField
  /\ ev = NoEv
  /\ steps = NoSteps
  /\ \E nests \in Layouts :
       /\ grid = Terrain(nests)
       /\ \E owner \in 1..Len(nests), p \in StartPositions,
             d \in StartDirections, carrying \in BOOLEAN :
            LET saved == SavedColonies(nests, owner,
                           [position |-> p, direction |-> d, speed |-> NOMINAL_SPEED,
                            carrying_food |-> carrying, home_position |-> p,
                            pheromone_deposit_timer |-> 0])
            IN  /\ colonies = Restored(saved)
                /\ NEXT_ANT_ID = IdsBefore(saved, Len(saved) + 1)

\* The dt accumulated since each agent's last cadence deposit, after a tick
\* of delta_time whose Ant::update records are logs.
SinceDeposit(gap, logs, delta_time) ==
  LET deposited == {logs[k].id : k \in {n \in 1..Len(logs) : logs[n].cadence # "none"}}
  IN  {<<id, 0>> : id \in deposited}
        \cup {<<p[1], p[2] + delta_time>> : p \in {q \in gap : q[1] \notin deposited}}

\* The lifetime of each agent at its last pickup, after a tick that left the
\* colonies list with the Ant::update records logs.
SincePickup(episode, list, logs) ==
  LET picked == {n \in 1..Len(logs) : logs[n].branch = "pickup"}
  IN  {<<logs[n].id, list[logs[n].colony].ants[logs[n].ant].lifetime>> : n \in picked}
        \cup {p \in episode : \A n \in picked : logs[n].id # p[1]}

\* One frame of the game loop: Environment::update(delta_time).
WorldTick(delta_time) ==
  /\ \E w \in Environment_update(grid, pheromones, colonies, NEXT_ANT_ID,
                                  delta_time) :
       /\ pheromones' = w.ph
       /\ colonies' = w.colonies
       /\ NEXT_ANT_ID' = w.next_id
       /\ ev' = [NoEv EXCEPT !.op = "tick", !.dt = delta_time,
                             !.prePh = pheromones, !.preCol = colonies,
                             !.log = w.logs, !.checks = w.checks,
                             !.preGap = steps.gap]
       /\ steps' = [steps EXCEPT !.ticks = @ + 1, !.sumDt = @ + delta_time,
                                 !.gap = SinceDeposit(@, w.logs, delta_time),
                                 !.episode = SincePickup(@, w.colonies, w.logs)]
  /\ UNCHANGED grid

\* World.tick: Environment::update(delta_time).
Tick ==
  /\ steps.ticks < MaxTicks
  /\ \E delta_time \in TickDts : WorldTick(delta_time)

Next == Tick

Spec == Init /\ [][Next]_vars

\* ------------------------------------------------- properties of one tick
\* The Ant::update records of the last tick.
TickLogs == IF ev.op = "tick" THEN {ev.log[n] : n \in 1..Len(ev.log)} ELSE {}

\* The agent of a record, as the tick left it.
EndAnt(L) == colonies[L.colony].ants[L.ant]

\* Inside a colony's delivery radius at the pickup/delivery step: on a Nest
\* cell within 50 px of the colony position, or off-cell within 40 px.
InDeliveryRadius(L, position) ==
  IF L.stepCell = "AntNest"
  THEN DistSq(L.stepPos, position) < (50 * PX) * (50 * PX)
  ELSE DistSq(L.stepPos, position) < (40 * PX) * (40 * PX)

\* C1: for every agent and every colony, the agent's own included: an agent
\* that carries food inside the colony's delivery radius at its delivery step
\* leaves that colony, after the tick, with food_stored and the delivery
\* count each increased by exactly 1, and is itself no longer carrying.
C1_DeliveryCreditsColonyInRadius ==
  \A L \in TickLogs :
    \A k \in 1..Len(ev.preCol) :
      (L.stepCarrying /\ InDeliveryRadius(L, ev.preCol[k].position)) =>
        /\ colonies[k].food_stored = ev.preCol[k].food_stored + 1
        /\ colonies[k].food_deliveries = ev.preCol[k].food_deliveries + 1
        /\ ~EndAnt(L).carrying_food

\* The colonies the delivery search of a record went through are all at or
\* beyond the lenient radius of 150 px (so none is within the strict 50 px).
NoColonyFound(L) ==
  /\ Len(L.seen) > 0
  /\ \A k \in 1..Len(L.seen) :
       DistSq(L.stepPos, L.seen[k]) >= (150 * PX) * (150 * PX)

\* C2: a carrying agent on a Nest cell whose search finds no colony within
\* 50 px, and the nearest one outside 150 px, does not drop the food: it is
\* still carrying after the tick, no colony counter has changed, and its
\* home_position is the position of the nearest colony.
C2_UndeliveredFoodIsKept ==
  \A L \in TickLogs :
    (L.stepCarrying /\ L.stepCell = "AntNest" /\ NoColonyFound(L)) =>
      /\ EndAnt(L).carrying_food
      /\ \A k \in 1..Len(ev.preCol) :
           /\ colonies[k].food_stored = ev.preCol[k].food_stored
           /\ colonies[k].food_deliveries = ev.preCol[k].food_deliveries
      /\ \E k \in 1..Len(L.seen) :
           /\ \A m \in 1..Len(L.seen) :
                DistSq(L.stepPos, L.seen[k]) <= DistSq(L.stepPos, L.seen[m])
           /\ EndAnt(L).home_position = L.seen[k]

\* C3: after every Ant::update the agent's heading lies in [0, 2 * pi).
C3_HeadingNormalized ==
  \A L \in TickLogs :
    0 <= EndAnt(L).direction /\ EndAnt(L).direction < TWO_PI

\* A searching agent whose cell at the start of the tick is Food.
StartsOnFood(L) == ~L.carrying0 /\ L.cell0 = "Food"

\* The pickup point advanced by 15 px along the heading the pickup set.
Escaped(L) ==
  <<L.pos0[1] + StepX(L.afterStepDir, 15 * PX),
    L.pos0[2] + StepY(L.afterStepDir, 15 * PX)>>

\* A point advanced by the distance the agent covers in the tick.
Advanced(L, from, direction) ==
  LET travel == Travel(EndAnt(L).speed, ev.dt)
  IN  <<from[1] + StepX(direction, travel), from[2] + StepY(direction, travel)>>

\* A coordinate held between the margin and the size less the margin.
Within(v, size) ==
  IF v < 10 * PX THEN 10 * PX
  ELSE IF v > size * PX - 10 * PX THEN size * PX - 10 * PX ELSE v

\* C9 as stated: a searching agent whose cell at the start of a tick is Food
\* ends the tick carrying, with the ignore timer at 15 s, at the pickup point
\* advanced by the 15 px escape distance plus the ordinary move of the tick.
C9_PickupAdvancesByEscapeAndMove ==
  \A L \in TickLogs :
    StartsOnFood(L) =>
      /\ EndAnt(L).carrying_food
      /\ EndAnt(L).ignore_pheromones_timer = 15 * SEC
      /\ EndAnt(L).position = Advanced(L, Escaped(L), L.afterStepDir)

\* C9, amended: ... ends the tick carrying, with the ignore timer at 15 s, at
\* the pickup point advanced by the 15 px escape distance and by the move of
\* the tick (along the heading, reflected if the move met a wall), each
\* coordinate then held within [10, size - 10] by the boundary check.
C9_PickupAdvancesWithinMargins ==
  \A L \in TickLogs :
    StartsOnFood(L) =>
      LET moved == Advanced(L, Escaped(L), L.travelDir)
      IN  /\ EndAnt(L).carrying_food
          /\ EndAnt(L).ignore_pheromones_timer = 15 * SEC
          /\ EndAnt(L).position = <<Within(moved[1], WorldW), Within(moved[2], WorldH)>>

\* C9 witness: a pickup whose escape and move ran into the boundary check.
C9_PickupHeldAtMargin ==
  \E L \in TickLogs :
    /\ StartsOnFood(L) /\ L.branch = "pickup" /\ L.clampX
    /\ EndAnt(L).carrying_food
    /\ EndAnt(L).position # Advanced(L, Escaped(L), L.afterStepDir)

\* The (cell, kind) key of the point where a record's pickup happened.
PickupKey(L, ptype) == <<ToCell(L.stepPos[1]), ToCell(L.stepPos[2]), ptype>>

\* C10 as stated: the strong marker of a pickup is of kind Home: the pickup
\* has increased the Home strength of the pickup cell and has not increased
\* its Food strength.
C10_PickupMarkerIsHome ==
  \A L \in TickLogs :
    L.branch = "pickup" =>
      /\ Stored(L.afterStepPh, PickupKey(L, "Home"))
           > Stored(L.stepPh, PickupKey(L, "Home"))
      /\ Stored(L.afterStepPh, PickupKey(L, "Food"))
           <= Stored(L.stepPh, PickupKey(L, "Food"))

\* C10, amended: the strong marker of a pickup is of kind Food: a pickup at
\* a point inside the scent field leaves the Food strength s of the pickup
\* cell at min(1.0, s + 0.9) and the Home strength of that cell as it was.
C10_PickupMarkerIsFood ==
  \A L \in TickLogs :
    (L.branch = "pickup" /\ InField(L.stepPos[1], L.stepPos[2])) =>
      LET s == Stored(L.stepPh, PickupKey(L, "Food"))
      IN  /\ Stored(L.afterStepPh, PickupKey(L, "Food"))
               = Min(ONE, s + 9 * (ONE \div 10))
          /\ Stored(L.afterStepPh, PickupKey(L, "Home"))
               = Stored(L.stepPh, PickupKey(L, "Home"))

\* C10 witness: a pickup has raised the Food strength of its cell.
C10_PickupRaisedFood ==
  \E L \in TickLogs :
    /\ L.branch = "pickup"
    /\ Stored(L.afterStepPh, PickupKey(L, "Food"))
         > Stored(L.stepPh, PickupKey(L, "Food"))
    /\ PickupKey(L, "Home") \notin DOMAIN L.afterStepPh

\* ------------------------------------------------------- wall collisions
\* A world of wall collisions is a restored save with a nest at NestA, whose
\* one searching agent stands in the corner of cell (11, 1) that touches
\* WallCell = (12, 1), (11, 2) and (12, 2), of which one or more are Wall
\* cells, and heads for one of the three.
CornerCells == {WallCell, <<WallCell[1] - 1, WallCell[2] + 1>>,
                <<WallCell[1], WallCell[2] + 1>>}

RECURSIVE WallAll(_, _)
WallAll(g, cells) ==
  IF cells = {} THEN g
  ELSE LET n == CHOOSE m \in cells : TRUE
       IN  WallAll(add_wall(g, n[1] * CELL_SIZE, n[2] * CELL_SIZE), cells \ {n})

WallHeadings == {0, PI \div 4, PI \div 2}

InitWall ==
  /\ pheromones = EmptyField
  /\ ev = NoEv
  /\ steps = NoSteps
  /\ \E walls \in SUBSET CornerCells \ {{}}, d \in WallHeadings :
       LET home  == NestCentre(NestA[1], NestA[2])
           saved == <<[position |-> home,
                       ants |-> <<[position |-> <<119 * PX, 19 * PX>>,
                                   direction |-> d, speed |-> NOMINAL_SPEED,
                                   carrying_food |-> FALSE,
                                   home_position |-> home,
                                   pheromone_deposit_timer |-> 0]>>,
                       food_stored |-> 0, max_ants |-> INITIAL_MAX_ANTS,
                       food_deliveries |-> 0]>>
       IN  /\ grid = WallAll(StampAll(EmptyGrid, <<NestA>>), walls)
           /\ colonies = Restored(saved)
           /\ NEXT_ANT_ID = IdsBefore(saved, Len(saved) + 1)

SpecWall == InitWall /\ [][Next]_vars

\* The heading h + pi, or one that differs from it by whole turns.
Reversed(direction, h) == (direction - h - PI) % TWO_PI = 0

\* The move of a record was recomputed from the corrected heading: the
\* heading travelled is the corrected one give or take the jitter of a tenth
\* of a radian, and the agent went from where it stood along that heading.
Recomputed(L) ==
  /\ Abs(L.travelDir - L.bounceDir) <= 6
  /\ L.movedPos =
       <<L.afterStepPos[1] + StepX(L.travelDir, Travel(EndAnt(L).speed, ev.dt)),
         L.afterStepPos[2] + StepY(L.travelDir, Travel(EndAnt(L).speed, ev.dt))>>

\* C14 as stated: when the tentative next position lies in a Wall cell, the
\* heading h becomes pi - h if the move crosses only the X boundary, -h if
\* it crosses only the Y boundary, and h + pi if it crosses both, whatever
\* the neighbouring cells are; the move is recomputed from that heading.
C14_ReflectsByCrossing ==
  \A L \in TickLogs :
    L.bounced # "none" =>
      /\ (L.crossX /\ ~L.crossY) => L.bounceDir = PI - L.moveDir
      /\ (~L.crossX /\ L.crossY) => L.bounceDir = -L.moveDir
      /\ (L.crossX /\ L.crossY) => Reversed(L.bounceDir, L.moveDir)
      /\ Recomputed(L)

\* C14, amended: as above, except that a move that crosses both boundaries
\* gives pi - h when the cell in the next column of the current row is a
\* Wall, otherwise -h when the cell in the current column of the next row is
\* a Wall, and h + pi only when neither of these two cells is a Wall.
C14_ReflectsByCrossingAndNeighbours ==
  \A L \in TickLogs :
    L.bounced # "none" =>
      /\ (L.crossX /\ ~L.crossY) => L.bounceDir = PI - L.moveDir
      /\ (~L.crossX /\ L.crossY) => L.bounceDir = -L.moveDir
      /\ (L.crossX /\ L.crossY /\ L.wallX) => L.bounceDir = PI - L.moveDir
      /\ (L.crossX /\ L.crossY /\ ~L.wallX /\ L.wallY) =>
           L.bounceDir = -L.moveDir
      /\ (L.crossX /\ L.crossY /\ ~L.wallX /\ ~L.wallY) =>
           Reversed(L.bounceDir, L.moveDir)
      /\ Recomputed(L)

\* A move crosses both boundaries into a Wall cell whose two neighbours are
\* Wall cells too.
C14_CornerOfThreeWalls ==
  \E L \in TickLogs :
    L.bounced # "none" /\ L.crossX /\ L.crossY /\ L.wallX /\ L.wallY

\* ================================================================ long runs
\* A long run starts from the restored save of a world where a nest was
\* placed at NestA and its cells were then removed again (remove_object), so
\* that the colony is left without Nest cells, next to the Food cell.  The
\* colony has a first agent near its home, carrying food or not, and a
\* second one searching in the open, 0.5 s before its next cadence deposit.
RECURSIVE RemoveAll(_, _)
RemoveAll(g, cells) ==
  IF cells = {} THEN g
  ELSE LET n == CHOOSE m \in cells : TRUE
       IN  RemoveAll(remove_object(g, n[1] * CELL_SIZE, n[2] * CELL_SIZE),
                     cells \ {n})

RunTerrain ==
  RemoveAll(Terrain(<<NestA>>),
            {<<NestA[1] + dx, NestA[2] + dy>> : dx \in -1..1, dy \in -1..1})

RunStarts == {<<185 * PX, 25 * PX>>, <<150 * PX, 25 * PX>>}

\* Time steps of a tick of a long run: 0.3 s and 0.5 s.
RunDts == {3, 5}

SavedAnt(p, d, carrying, home, timer) ==
  [position |-> p, direction |-> d, speed |-> NOMINAL_SPEED,
   carrying_food |-> carrying, home_position |-> home,
   pheromone_deposit_timer |-> timer]

InitRun ==
  /\ pheromones = EmptyField
  /\ ev = NoEv
  /\ steps = [NoSteps EXCEPT !.start = "run"]
  /\ grid = RunTerrain
  /\ \E p \in RunStarts, carrying \in BOOLEAN :
       LET home  == NestCentre(NestA[1], NestA[2])
           saved == <<[position |-> home,
                       ants |-> <<SavedAnt(p, 0, carrying, home, 0),
                                  SavedAnt(<<118 * PX, 18 * PX>>, 200, FALSE, home, 5)>>,
                       food_stored |-> 0, max_ants |-> INITIAL_MAX_ANTS,
                       food_deliveries |-> 0]>>
       IN  /\ colonies = Restored(saved)
           /\ NEXT_ANT_ID = IdsBefore(saved, Len(saved) + 1)

RunTick ==
  /\ steps.ticks < MaxRunTicks
  /\ \E delta_time \in RunDts : WorldTick(delta_time)

NextRun == RunTick

SpecRun == InitRun /\ [][NextRun]_vars

\* ------------------------------------------------ properties of long runs
\* The agent an Ant::update record is about, as the tick found it.
StartAnt(L) == ev.preCol[L.colony].ants[L.ant]

\* C11: in every tick where an agent's deposit timer is <= 0 after being
\* decremented by dt, the timer is reset to 0.5 s and exactly one deposit is
\* made at the agent's position, Home with 0.8 if it is carrying food at
\* that moment and Food with 0.3 if it is searching; in a tick where the
\* timer is still > 0 nothing is deposited and the timer is left alone; and
\* two cadence deposits of one agent are at least 0.5 s of accumulated dt
\* apart.
C11_CadenceDeposit ==
  \A L \in TickLogs :
    /\ L.timer = StartAnt(L).pheromone_deposit_timer - ev.dt
    /\ L.timer <= 0 =>
         /\ L.timerAfter = SEC \div 2
         /\ L.cadence = IF L.cadenceCarrying THEN "Home" ELSE "Food"
         /\ L.cadenceAmount = IF L.cadenceCarrying THEN (8 * ONE) \div 10
                              ELSE (3 * ONE) \div 10
         /\ L.cadencePh1 = add_pheromone(L.cadencePh0, L.cadenceAt[1],
                                         L.cadenceAt[2], L.cadence,
                                         L.cadenceAmount)
    /\ L.timer > 0 =>
         /\ L.timerAfter = L.timer
         /\ L.cadence = "none"
         /\ L.cadencePh1 = L.cadencePh0
    /\ L.cadence # "none" =>
         \A p \in ev.preGap : p[1] = L.id => p[2] + ev.dt >= SEC \div 2

\* An agent carrying food makes its second cadence deposit, 0.5 s or more
\* after its first, in a tick where the other agent's timer is still running.
C11_SecondDeposit ==
  \E L \in TickLogs, M \in TickLogs :
    /\ L.cadence = "Home"
    /\ \E p \in ev.preGap : p[1] = L.id /\ p[2] + ev.dt > SEC \div 2
    /\ M.timer > 0

\* The position one escape step of 8 px along direction leads to.
EscapeStepFrom(position, direction) ==
  <<position[1] + StepX(direction, 8 * PX), position[2] + StepY(direction, 8 * PX)>>

\* C12: loop detection takes no escape action in a pass where the position
\* history holds fewer than 5 samples (or in a tick without a pass); whenever
\* it fires, the history is empty immediately afterwards and exactly one
\* escape has been applied in that pass (one 8 px step, one strong marker),
\* however many records satisfy the age and distance conditions.
C12_OneEscapePerPass ==
  \A L \in TickLogs :
    /\ L.passLen < 5 =>
         ~L.loop /\ L.passPos1 = L.passPos0 /\ L.passPh1 = L.passPh0
    /\ L.loop =>
         /\ L.hits >= 1
         /\ L.passLen1 = 0
         /\ L.passPos1 = EscapeStepFrom(L.passPos0, L.passDir1)
         /\ L.passPh1 = add_pheromone(L.passPh0, L.passPos1[1], L.passPos1[2],
                                      "Home", (9 * ONE) \div 10)

\* Loop detection fires in a pass where two or more records qualify.
C12_SeveralRecordsQualify == \E L \in TickLogs : L.loop /\ L.hits >= 2

\* C13: when loop detection fires for an agent that is carrying food, then
\* at the end of that tick its speed is 5 (below the nominal 20), its ignore
\* timer is 25 s, and the pass advanced its position by the 8 px escape step
\* along its new heading, which is the direction of its home give or take
\* the random variation of half a radian.
C13_CarryingEscape ==
  \A L \in TickLogs :
    L.loop /\ L.carrying0 =>
      /\ EndAnt(L).speed = 5
      /\ EndAnt(L).speed < 20
      /\ EndAnt(L).ignore_pheromones_timer = 25 * SEC
      /\ L.passPos1 = EscapeStepFrom(L.passPos0, L.passDir1)
      /\ Abs(L.passDir1 - HomeDirection(L.passPos0, StartAnt(L).home_position))
           <= 29

\* Loop detection fires for an agent carrying food, whose new heading is
\* off the direction of its home.
C13_EscapedOffHome ==
  \E L \in TickLogs :
    /\ L.loop /\ L.carrying0
    /\ L.passDir1 # HomeDirection(L.passPos0, StartAnt(L).home_position)
    /\ L.passPos1 # L.passPos0

\* --------------------------------------------------------- crowded colonies
\* A crowded colony is restored from a save: a nest at NestA whose colony
\* has a cap of 50 and one agent, or one or no agent less than the cap, all
\* searching from the colony's position as spawned agents do, and a store of
\* nothing, of the spawn cost, or of more.
Populations == {1, INITIAL_MAX_ANTS - 1, INITIAL_MAX_ANTS}

FoodLevels == {0, SPAWN_COST, SPAWN_COST + 1, 3 * SPAWN_COST + 2}

InitCrowd ==
  /\ pheromones = EmptyField
  /\ ev = NoEv
  /\ steps = [NoSteps EXCEPT !.start = "crowd"]
  /\ grid = Terrain(<<NestA>>)
  /\ \E n \in Populations, food \in FoodLevels :
       LET home  == NestCentre(NestA[1], NestA[2])
           saved == <<[position |-> home,
                       ants |-> [k \in 1..n |-> SavedAnt(home, 0, FALSE, home, 0)],
                       food_stored |-> food, max_ants |-> INITIAL_MAX_ANTS,
                       food_deliveries |-> 0]>>
       IN  /\ colonies = Restored(saved)
           /\ NEXT_ANT_ID = IdsBefore(saved, Len(saved) + 1)

CrowdTick ==
  /\ steps.ticks < MaxCrowdTicks
  /\ \E delta_time \in RunDts : WorldTick(delta_time)

NextCrowd == CrowdTick

SpecCrowd == InitCrowd /\ [][NextCrowd]_vars

\* The spawn tests of the last tick, one for each Colony::update.
TickChecks == IF ev.op = "tick" THEN {ev.checks[n] : n \in 1..Len(ev.checks)} ELSE {}

\* C15: Colony::update spawns at most one agent per tick, and only if the
\* population is below max_ants and food_stored is strictly greater than 10;
\* a spawn puts the new agent at the colony's position, with that position
\* as its home, and deducts exactly 10; without a spawn the store is left
\* alone; after every tick every colony has population <= max_ants and
\* food_stored >= 0.
C15_SpawnGuardedAndPaid ==
  /\ \A K \in TickChecks :
       LET colony == colonies[K.colony]
       IN  /\ Len(colony.ants) - Len(ev.preCol[K.colony].ants) \in {0, 1}
           /\ K.population_after - K.population = (IF K.spawned THEN 1 ELSE 0)
           /\ K.spawned =>
                /\ K.population < K.max_ants
                /\ K.food_stored > 10
                /\ K.last[1].position = colony.position
                /\ K.last[1].home_position = colony.position
                /\ K.food_after = K.food_stored - 10
           /\ ~K.spawned => K.food_after = K.food_stored
  /\ \A i \in 1..Len(colonies) :
       /\ Len(colonies[i].ants) <= colonies[i].max_ants
       /\ colonies[i].food_stored >= 0

\* A spawn fills a colony to its cap and leaves it with food for another
\* spawn.
C15_SpawnToTheCap ==
  \E K \in TickChecks :
    /\ K.spawned
    /\ K.population_after = K.max_ants
    /\ K.food_after > 10

\* ------------------------------------------------------- a colony's store
\* The store of a colony is followed from a restored save: a nest at NestA
\* whose colony has one searching agent, a store just below, at or above the
\* growth threshold, and a cap of 50, of one below the ceiling or of the
\* ceiling.  Its steps are calls of Colony::add_food(1.0), as the deliveries
\* make them, and ticks with every random draw the middle of its range.
StoreLevels == {GROWTH_THRESHOLD - 1, GROWTH_THRESHOLD, GROWTH_THRESHOLD + 1,
                GROWTH_THRESHOLD + 50}

Caps == {INITIAL_MAX_ANTS, MAX_ANTS_CEILING - 1, MAX_ANTS_CEILING}

InitStore ==
  /\ pheromones = EmptyField
  /\ ev = NoEv
  /\ steps = [NoSteps EXCEPT !.start = "crowd"]
  /\ grid = Terrain(<<NestA>>)
  /\ \E food \in StoreLevels, cap \in Caps :
       LET home  == NestCentre(NestA[1], NestA[2])
           saved == <<[position |-> home,
                       ants |-> <<SavedAnt(home, 0, FALSE, home, 0)>>,
                       food_stored |-> food, max_ants |-> cap,
                       food_deliveries |-> 0]>>
       IN  /\ colonies = Restored(saved)
           /\ NEXT_ANT_ID = IdsBefore(saved, Len(saved) + 1)

\* colony.add_food(1.0) on colony i (ant/mod.rs, lines 612, 646 and 703).
AddFoodCall ==
  /\ steps.ticks + steps.calls < MaxStoreOps
  /\ \E i \in 1..Len(colonies) :
       /\ colonies' = [colonies EXCEPT ![i] = Colony_add_food(@, 1)]
       /\ ev' = [NoEv EXCEPT !.op = "add_food", !.x = i, !.amount = 1,
                             !.preCol = colonies]
  /\ steps' = [steps EXCEPT !.calls = @ + 1]
  /\ UNCHANGED <<grid, pheromones, NEXT_ANT_ID>>

StoreTick ==
  /\ steps.ticks + steps.calls < MaxStoreOps
  /\ \E delta_time \in RunDts : WorldTick(delta_time)

NextStore == AddFoodCall \/ StoreTick

SpecStore == InitStore /\ [][NextStore]_vars

\* The cap of no colony went down in the last step, and none is above 200.
CapsKept ==
  \A i \in 1..Len(colonies) :
    /\ colonies[i].max_ants <= 200
    /\ ev.op \in {"add_food", "tick"} =>
         colonies[i].max_ants >= ev.preCol[i].max_ants

\* C16 as stated: add_food raises the cap by 1 only on a call that takes
\* food_stored from <= 100 to > 100 while the cap is below 200, and leaves
\* it unchanged on every other call; the cap never decreases and never
\* exceeds 200.
C16_CapRaisedOnCrossing ==
  /\ CapsKept
  /\ ev.op = "add_food" =>
       LET before == ev.preCol[ev.x]
           after  == colonies[ev.x]
       IN  after.max_ants =
             IF /\ before.food_stored <= 100 /\ after.food_stored > 100
                /\ before.max_ants < 200
             THEN before.max_ants + 1 ELSE before.max_ants

\* C16, amended: add_food raises the cap by 1 on every call after which
\* food_stored is > 100 while the cap is below 200, whether or not the call
\* crossed the threshold, and leaves it unchanged on every other call; the
\* cap never decreases and never exceeds 200.
C16_CapRaisedAboveThreshold ==
  /\ CapsKept
  /\ ev.op = "add_food" =>
       LET before == ev.preCol[ev.x]
           after  == colonies[ev.x]
       IN  after.max_ants =
             IF after.food_stored > 100 /\ before.max_ants < 200
             THEN before.max_ants + 1 ELSE before.max_ants

\* A call that starts above the threshold raises the cap.
C16_RaisedWithoutCrossing ==
  /\ ev.op = "add_food"
  /\ ev.preCol[ev.x].food_stored > 100
  /\ colonies[ev.x].max_ants = ev.preCol[ev.x].max_ants + 1

\* ------------------------------------------------------------ terrain edits
\* The terrain is edited from a new world (Environment::new) with the
\* mutators the input handler calls, at the middle of cells (2, 2), (3, 2)
\* and (0, 0), and left of, above, right of and below the world.  The ten
\* agents of a new colony all draw the middle of the range.
EditPoints ==
  {<<25 * PX, 25 * PX>>, <<35 * PX, 25 * PX>>, <<5 * PX, 5 * PX>>,
   <<-5 * PX, 25 * PX>>, <<25 * PX, -5 * PX>>,
   <<(WorldW + 5) * PX, 25 * PX>>, <<25 * PX, (WorldH + 5) * PX>>}

InitTerrain ==
  /\ grid = EmptyGrid
  /\ pheromones = EmptyField
  /\ colonies = <<>>
  /\ NEXT_ANT_ID = 0
  /\ ev = NoEv
  /\ steps = [NoSteps EXCEPT !.start = "crowd"]

\* What an edit leaves in ev and steps.
Edited(op, p) ==
  /\ ev' = [NoEv EXCEPT !.op = op, !.x = p[1], !.y = p[2],
                        !.preCol = colonies, !.preGrid = grid]
  /\ steps' = [steps EXCEPT !.calls = @ + 1]

AddWall ==
  /\ steps.calls < MaxEdits
  /\ \E p \in EditPoints :
       /\ grid' = add_wall(grid, p[1], p[2])
       /\ Edited("add_wall", p)
  /\ UNCHANGED <<pheromones, colonies, NEXT_ANT_ID>>

AddFood ==
  /\ steps.calls < MaxEdits
  /\ \E p \in EditPoints :
       /\ grid' = add_food(grid, p[1], p[2])
       /\ Edited("add_food", p)
  /\ UNCHANGED <<pheromones, colonies, NEXT_ANT_ID>>

AddAntNest ==
  /\ steps.calls < MaxEdits
  /\ \E p \in EditPoints, r \in Rand :
       LET e == add_ant_nest(grid, colonies, NEXT_ANT_ID, p[1], p[2],
                             [i \in 1..INITIAL_ANTS |-> r])
       IN  /\ grid' = e.grid
           /\ colonies' = e.colonies
           /\ NEXT_ANT_ID' = e.next_id
           /\ Edited("add_ant_nest", p)
  /\ UNCHANGED pheromones

RemoveObject ==
  /\ steps.calls < MaxEdits
  /\ \E p \in EditPoints :
       /\ grid' = remove_object(grid, p[1], p[2])
       /\ Edited("remove_object", p)
  /\ UNCHANGED <<pheromones, colonies, NEXT_ANT_ID>>

NextTerrain == AddWall \/ AddFood \/ AddAntNest \/ RemoveObject

SpecTerrain == InitTerrain /\ [][NextTerrain]_vars

\* The cells of the 3 x 3 block centred on a cell.
Block(centre) == {<<centre[1] + dx, centre[2] + dy>> : dx \in -1..1, dy \in -1..1}

\* centre is the centre of a block of nine Nest cells with exactly one
\* colony at it.
NestWithColony(centre) ==
  /\ \A n \in Block(centre) :
       n[1] >= 0 /\ n[2] >= 0 /\ get_cell(grid, n[1], n[2]) = "AntNest"
  /\ Cardinality({i \in 1..Len(colonies) :
                    colonies[i].position = NestCentre(centre[1], centre[2])}) = 1

\* C17: after any sequence of terrain edits every Nest cell belongs to a
\* 3 x 3 block of Nest cells with exactly one colony at its centre, and every
\* colony sits at the centre of such a block; each Nest placement at a
\* coordinate inside the world stamps all nine cells and adds exactly one
\* colony.
C17_NestBlocksAndColonies ==
  /\ \A cell \in DOMAIN grid :
       grid[cell] = "AntNest" =>
         \E centre \in Block(cell) : NestWithColony(centre)
  /\ \A i \in 1..Len(colonies) :
       \E centre \in (0..GridWidth) \X (0..GridHeight) :
         /\ colonies[i].position = NestCentre(centre[1], centre[2])
         /\ NestWithColony(centre)
  /\ (ev.op = "add_ant_nest" /\ InWorld(ev.x, ev.y)) =>
       /\ \A n \in Block(screen_to_grid(ev.x, ev.y)) :
            n[1] >= 0 /\ n[2] >= 0 /\ get_cell(grid, n[1], n[2]) = "AntNest"
       /\ Len(colonies) = Len(ev.preCol) + 1

\* Cells beyond the right and the bottom edge of the grid.
OutsideCells ==
  {<<GridWidth, 0>>, <<0, GridHeight>>, <<GridWidth + 5, GridHeight + 5>>}

\* C18: get_cell returns Empty for a cell outside the grid, and a terrain
\* mutator called with a coordinate outside the world, negative x or y
\* included, leaves the grid and the colony list unchanged.
C18_OutsideIsIgnored ==
  /\ \A n \in OutsideCells : get_cell(grid, n[1], n[2]) = "Empty"
  /\ (/\ ev.op \in {"add_wall", "add_food", "add_ant_nest", "remove_object"}
      /\ ~InWorld(ev.x, ev.y)) =>
       grid = ev.preGrid /\ colonies = ev.preCol

\* The same for the coordinates at or beyond the right and bottom edges.
C18_BeyondFarEdgesIsIgnored ==
  (/\ ev.op \in {"add_wall", "add_food", "add_ant_nest", "remove_object"}
   /\ (ev.x >= WorldW * PX \/ ev.y >= WorldH * PX)) =>
     grid = ev.preGrid /\ colonies = ev.preCol

\* ------------------------------------------------------ the order of a tick
\* The order of a tick is followed from a restored save with a nest at
\* NestA and another at NestB or at NestC, 110 px or 180 px away, in either
\* order.  The other colony has the first agent, which stands on a cell of
\* the nest at NestA, carrying food or not; the colony at NestA has the
\* second agent, on the same cell, carrying food or not, and a store of
\* nothing or of the spawn cost.  The scent field holds one Food cell of 0.5.
\* Every random draw is the middle of its range.
NestC == <<1, 2>>

InitOrder ==
  /\ pheromones = HalfField
  /\ ev = NoEv
  /\ steps = [NoSteps EXCEPT !.start = "crowd"]
  /\ \E other \in {NestB, NestC}, first \in BOOLEAN, carrying \in BOOLEAN,
        carrying2 \in BOOLEAN, food \in {0, SPAWN_COST} :
       LET nests == IF first THEN <<other, NestA>> ELSE <<NestA, other>>
           homeA == NestCentre(NestA[1], NestA[2])
           homeO == NestCentre(other[1], other[2])
           saved == [i \in 1..2 |->
                       IF nests[i] = other
                       THEN [position |-> homeO,
                             ants |-> <<SavedAnt(<<185 * PX, 25 * PX>>, 0,
                                                 carrying, homeO, 0)>>,
                             food_stored |-> 0, max_ants |-> INITIAL_MAX_ANTS,
                             food_deliveries |-> 0]
                       ELSE [position |-> homeA,
                             ants |-> <<SavedAnt(<<185 * PX, 25 * PX>>, PI,
                                                 carrying2, homeA, 0)>>,
                             food_stored |-> food, max_ants |-> INITIAL_MAX_ANTS,
                             food_deliveries |-> 0]]
       IN  /\ grid = Terrain(nests)
           /\ colonies = Restored(saved)
           /\ NEXT_ANT_ID = IdsBefore(saved, Len(saved) + 1)

SpecOrder == InitOrder /\ [][NextCrowd]_vars

\* The scent field a tick starts its colonies from.
Decayed == PheromoneSystem_update(ev.prePh, ev.dt)

\* The spawn tests made after exactly n Ant::update calls of the tick.
ChecksAfter(n) == {K \in TickChecks : K.updates = n}

\* food_stored of colony j after the spawn tests that follow update n.
FoodAfter(n, j, food) ==
  IF \E K \in ChecksAfter(n) : K.colony = j
  THEN (CHOOSE K \in ChecksAfter(n) : K.colony = j).food_after
  ELSE food

\* C19: within one tick the scent field is decayed exactly once and before
\* any agent acts; the colonies are updated in index order and the agents of
\* each in list order; and every Ant::update and every spawn test starts
\* from the field and the stores exactly as the Ant::update before it (and
\* the spawn tests since) left them, which is also how the tick leaves them.
C19_InOrderOnLiveState ==
  ev.op = "tick" =>
    LET logs == ev.log
        n    == Len(logs)
        order == [k \in 1..n |-> <<logs[k].colony, logs[k].ant>>]
    IN  /\ \A i \in 1..Len(ev.preCol) :
             \A j \in 1..Len(ev.preCol[i].ants) :
               \E k \in 1..n : order[k] = <<i, j>>
        /\ \A k \in 1..n, m \in 1..n :
             k < m => \/ order[k][1] < order[m][1]
                      \/ order[k][1] = order[m][1] /\ order[k][2] < order[m][2]
        /\ \A k \in 1..n :
             /\ logs[k].ph0 = IF k = 1 THEN Decayed ELSE logs[k - 1].ph1
             /\ \A j \in 1..Len(ev.preCol) :
                  logs[k].food0[j] =
                    IF k = 1 THEN FoodAfter(0, j, ev.preCol[j].food_stored)
                    ELSE FoodAfter(k - 1, j, logs[k - 1].food1[j])
        /\ \A K \in TickChecks :
             /\ K.ph = IF K.updates = 0 THEN Decayed ELSE logs[K.updates].ph1
             /\ K.food_stored = IF K.updates = 0
                                THEN ev.preCol[K.colony].food_stored
                                ELSE logs[K.updates].food1[K.colony]
        /\ pheromones = IF n = 0 THEN Decayed ELSE logs[n].ph1
        /\ \A j \in 1..Len(colonies) :
             colonies[j].food_stored =
               IF n = 0 THEN FoodAfter(0, j, ev.preCol[j].food_stored)
               ELSE FoodAfter(n, j, logs[n].food1[j])

\* In a tick that starts with a scent field to decay, the first colony's
\* agent delivers to the second colony, whose agent then starts from the
\* field with the first agent's deposits and whose spawn test passes on the
\* store the delivery raised above the spawn cost.
C19_LaterReadsEarlier ==
  /\ ev.op = "tick"
  /\ Decayed # ev.prePh
  /\ \E k \in 1..Len(ev.log) :
       /\ ev.log[k].delivered # 0
       /\ ev.log[k].ph1 # ev.log[k].ph0
       /\ \E K \in TickChecks :
            /\ K.colony = ev.log[k].delivered
            /\ K.updates > k
            /\ ev.preCol[K.colony].food_stored = 10
            /\ K.spawned

\* The ids of the agents of a list of colonies.
AntIds(list) ==
  UNION {{list[i].ants[j].id : j \in 1..Len(list[i].ants)} : i \in 1..Len(list)}

\* C20: across any sequence of ticks every colony's agent list only grows by
\* appending newly spawned agents: after a tick every list starts with the
\* agents it had before the tick, in their order, any further agent is one
\* the colony spawned in that tick, and no agent is in two lists or twice
\* in one, also in a tick that repoints an agent's home_position to another
\* colony.
C20_ListsOnlyGrowByAppending ==
  ev.op = "tick" =>
    /\ Len(colonies) = Len(ev.preCol)
    /\ \A i \in 1..Len(colonies) :
         LET old == ev.preCol[i].ants
             new == colonies[i].ants
         IN  /\ Len(new) >= Len(old)
             /\ \A j \in 1..Len(old) : new[j].id = old[j].id
             /\ \A j \in (Len(old) + 1)..Len(new) :
                  /\ new[j].id \notin AntIds(ev.preCol)
                  /\ \E K \in TickChecks :
                       K.colony = i /\ K.spawned /\ K.last[1].id = new[j].id
    /\ \A i \in 1..Len(colonies), k \in 1..Len(colonies) :
         \A j \in 1..Len(colonies[i].ants) :
           \A m \in 1..Len(colonies[k].ants) :
             colonies[i].ants[j].id = colonies[k].ants[m].id => i = k /\ j = m

\* A tick repoints the home_position of an agent to another colony while
\* another agent is spawned, and the agent is still where it was in the
\* list of its colony.
C20_RehomedStays ==
  \E L \in TickLogs :
    /\ L.rehomed
    /\ EndAnt(L).id = StartAnt(L).id
    /\ \E k \in 1..Len(colonies) :
         /\ k # L.colony
         /\ EndAnt(L).home_position = colonies[k].position
         /\ StartAnt(L).home_position # colonies[k].position
    /\ \E K \in TickChecks : K.spawned

\* ========================================================== a fading field
\* The ticks of a world without colonies, which decay the scent field and do
\* nothing else, with at most MaxFadeDeposits deposits between them.  The
\* game loop calls Environment::update once a frame for as long as the game
\* is not paused, so the tick is weakly fair.
\* Time steps of a tick: 5 s and 20 s.
FadeDts == {5 * SEC, 20 * SEC}

\* Positions of a deposit: in cell (0, 0) and in cell (1, 0).
FadePoints == {<<5 * PX, 5 * PX>>, <<15 * PX, 5 * PX>>}

FadeTick ==
  /\ \E delta_time \in FadeDts :
       \E w \in Environment_update(grid, pheromones, colonies, NEXT_ANT_ID,
                                    delta_time) :
         /\ pheromones' = w.ph
         /\ ev' = [NoEv EXCEPT !.op = "tick", !.dt = delta_time,
                               !.prePh = pheromones]
  /\ UNCHANGED <<grid, colonies, NEXT_ANT_ID, steps>>

FadeDeposit ==
  /\ steps.deposits < MaxFadeDeposits
  /\ \E p \in FadePoints, ptype \in PheromoneType :
       /\ pheromones' = add_pheromone(pheromones, p[1], p[2], ptype,
                                      SEARCHING_DEPOSIT)
       /\ ev' = [NoEv EXCEPT !.op = "deposit", !.x = p[1], !.y = p[2],
                             !.ptype = ptype, !.amount = SEARCHING_DEPOSIT,
                             !.prePh = pheromones]
  /\ steps' = [steps EXCEPT !.deposits = @ + 1]
  /\ UNCHANGED <<grid, colonies, NEXT_ANT_ID>>

NextFade == FadeTick \/ FadeDeposit

SpecFade == InitField /\ [][NextFade]_vars /\ WF_vars(FadeTick)

\* The (cell, kind) entries a fading field can hold.
FadeKeys == {<<x, 0, t>> : x \in {0, 1}, t \in PheromoneType}

\* C21: if ticks keep being executed with dt > 0 and no further deposit is
\* made to a (cell, kind) entry, the entry is eventually removed from the
\* scent field, and until then its strength strictly decreases at every
\* tick: an entry that is stored leads to its removal or to a deposit to
\* it, and a tick leaves every entry either removed or weaker than it was.
C21_FadesAway ==
  /\ \A k \in FadeKeys :
       (k \in DOMAIN pheromones)
         ~> (k \notin DOMAIN pheromones \/ (ev.op = "deposit" /\ DepositKey = k))
  /\ [][ev'.op = "tick" =>
         \A k \in DOMAIN pheromones :
           k \notin DOMAIN pheromones' \/ pheromones'[k] < pheromones[k]]_vars

\* The entry a field started with at 0.5 is removed by a tick, after ticks
\* that each left it weaker, in a run without a deposit.
C21_HalfHasFaded ==
  /\ steps.start = "half" /\ steps.deposits = 0
  /\ ev.op = "tick"
  /\ <<0, 0, "Food">> \in DOMAIN ev.prePh
  /\ ev.prePh[<<0, 0, "Food">>] < ONE \div 10
  /\ <<0, 0, "Food">> \notin DOMAIN pheromones

\* ====================================================== saving and loading
\* A world restored from a save: a nest at NestA whose colony has one
\* searching agent on the Food cell, and a scent field that is empty or
\* holds strong scent of both kinds in the five cells of the row below the
\* agent that lie nearest to the nest.
\* The world is ticked, and it may be saved and loaded back at once.
ScentField ==
  [k \in {<<x, 3, t>> : x \in (NestA[1] - 4)..NestA[1], t \in PheromoneType}
     |-> MARKER_DEPOSIT]

\* A scent field that differs from ph in the cells around the agent.
TwinField(ph) ==
  IF DOMAIN ph \cap DOMAIN ScentField = {} THEN ScentField ELSE EmptyField

InitReload ==
  /\ ev = NoEv
  /\ steps = [NoSteps EXCEPT !.start = "reload"]
  /\ grid = Terrain(<<NestA>>)
  /\ pheromones \in {EmptyField, ScentField}
  /\ LET home  == NestCentre(NestA[1], NestA[2])
         saved == <<[position |-> home,
                     ants |-> <<SavedAnt(NestCentre(FoodCell[1], FoodCell[2]),
                                         0, FALSE, home, 0)>>,
                     food_stored |-> 0, max_ants |-> INITIAL_MAX_ANTS,
                     food_deliveries |-> 0]>>
     IN  /\ colonies = Restored(saved)
         /\ NEXT_ANT_ID = IdsBefore(saved, Len(saved) + 1)

\* One frame of the game loop.  ev.twin holds the colony lists the same
\* frame ends in when it starts from the other scent field.
ReloadTick ==
  /\ steps.ticks < MaxReloadTicks
  /\ \E delta_time \in TickDts :
       \E twin \in {{t.colonies :
                       t \in Environment_update(grid, TwinField(pheromones),
                                                colonies, NEXT_ANT_ID, delta_time)}} :
         \E w \in Environment_update(grid, pheromones, colonies, NEXT_ANT_ID,
                                      delta_time) :
           /\ pheromones' = w.ph
           /\ colonies' = w.colonies
           /\ NEXT_ANT_ID' = w.next_id
           /\ ev' = [NoEv EXCEPT
                       !.op = "tick", !.dt = delta_time,
                       !.prePh = pheromones, !.preCol = colonies,
                       !.log = w.logs, !.checks = w.checks,
                       !.twin = twin]
           /\ steps' = [steps EXCEPT !.ticks = @ + 1, !.sumDt = @ + delta_time]
  /\ UNCHANGED grid

\* Game::save_game then Game::load_game.
SaveLoad ==
  /\ steps.calls < MaxLoads
  /\ LET loaded == Reloaded(grid, pheromones, colonies, NEXT_ANT_ID)
     IN  /\ grid' = loaded.grid
         /\ pheromones' = loaded.ph
         /\ colonies' = loaded.colonies
         /\ NEXT_ANT_ID' = loaded.next_id
  /\ ev' = [NoEv EXCEPT !.op = "load", !.prePh = pheromones,
                        !.preCol = colonies, !.preGrid = grid]
  /\ steps' = [steps EXCEPT !.calls = @ + 1]

NextReload == ReloadTick \/ SaveLoad

SpecReload == InitReload /\ [][NextReload]_vars

\* The fields of an agent that a round trip is to keep, but for field
\* ignore_pheromones_timer.
SameButIgnoreTimer(a, b) ==
  /\ a.position = b.position
  /\ a.direction = b.direction
  /\ a.speed = b.speed
  /\ a.carrying_food = b.carrying_food
  /\ a.home_position = b.home_position
  /\ a.pheromone_deposit_timer = b.pheromone_deposit_timer

\* The round trip but for the agents' ignore timers: grid, scent entries,
\* colonies' counters and agents' other fields.
RoundTripButIgnoreTimer ==
  /\ grid = ev.preGrid
  /\ pheromones = ev.prePh
  /\ Len(colonies) = Len(ev.preCol)
  /\ \A i \in 1..Len(colonies) :
       /\ colonies[i].food_stored = ev.preCol[i].food_stored
       /\ colonies[i].food_deliveries = ev.preCol[i].food_deliveries
       /\ colonies[i].max_ants = ev.preCol[i].max_ants
       /\ Len(colonies[i].ants) = Len(ev.preCol[i].ants)
       /\ \A j \in 1..Len(colonies[i].ants) :
            SameButIgnoreTimer(colonies[i].ants[j], ev.preCol[i].ants[j])

\* C22: saving a world and reconstructing it is a round trip: the terrain
\* grid and every scent entry are restored with identical values, every
\* colony keeps its food_stored, delivery_count, max_population and its own
\* agents, and every agent is restored with identical position, heading,
\* speed, carrying flag, home position, deposit timer and ignore timer.
C22_RoundTrip ==
  ev.op = "load" =>
    /\ RoundTripButIgnoreTimer
    /\ \A i \in 1..Len(colonies) :
         \A j \in 1..Len(colonies[i].ants) :
           colonies[i].ants[j].ignore_pheromones_timer
             = ev.preCol[i].ants[j].ignore_pheromones_timer

\* The part of C22 that leaves the ignore timer out.
C22_RoundTripButIgnoreTimer == ev.op = "load" => RoundTripButIgnoreTimer

\* C23: while an agent's ignore timer is > 0 at the decision step of a tick,
\* trail following is not run and the agent's resulting state is independent
\* of the scent field: the state its Ant::update ends in is one that the
\* same update ends in when it starts from a different scent field; and in
\* a tick where the exploration perturbation is applied, trail following is
\* not run either.
C23_IgnoresTheScentField ==
  \A L \in TickLogs :
    /\ L.decideTimer > 0 =>
         /\ ~L.followed
         /\ \E t \in ev.twin : t[L.colony].ants[L.ant] = EndAnt(L)
    /\ L.explored => ~L.followed

\* An agent that picked up food in the tick before decides with its ignore
\* timer running and without the exploration perturbation, in a world whose
\* field holds no Home scent where the other field holds it.
C23_DecidesWhileIgnoring ==
  \E L \in TickLogs :
    /\ L.decideTimer > 0 /\ ~L.explored /\ L.carrying0
    /\ TwinField(ev.prePh) = ScentField

\* ============================================================= slow frames
\* A run of slow frames starts from the world of a long run with one agent
\* that carries food near its home.  The game runs at its normal speed, in
\* frames of 0.5 s, or at a speed the + key has raised for frames of 11.5 s
\* (dt = simulation_speed / 60), so that the 25 s of an escape go by within
\* the run.
SlowDts == {5, 115}

InitSlow ==
  /\ pheromones = EmptyField
  /\ ev = NoEv
  /\ steps = [NoSteps EXCEPT !.start = "slow"]
  /\ grid = RunTerrain
  /\ \E p \in RunStarts :
       LET home  == NestCentre(NestA[1], NestA[2])
           saved == <<[position |-> home,
                       ants |-> <<SavedAnt(p, 0, TRUE, home, 0)>>,
                       food_stored |-> 0, max_ants |-> INITIAL_MAX_ANTS,
                       food_deliveries |-> 0]>>
       IN  /\ colonies = Restored(saved)
           /\ NEXT_ANT_ID = IdsBefore(saved, Len(saved) + 1)

SlowTick ==
  /\ steps.ticks < MaxSlowTicks
  /\ \E delta_time \in SlowDts : WorldTick(delta_time)

NextSlow == SlowTick

SpecSlow == InitSlow /\ [][NextSlow]_vars

\* The ignore timer of the agent of a log after the decrement of line 71.
IgnoreAfterDecrement(L) == StartAnt(L).ignore_pheromones_timer - ev.dt

\* C24: at the end of every tick the speed of an agent is the nominal 20 or
\* the reduced 5, and it is 5 only while the ignore timer is above 1.0 s; a
\* reduced speed is kept while the timer, after the decrement of the tick,
\* is above 1.0 s, it is back at 20 after the first tick in which the timer
\* is at most 1.0 s and that has no loop escape, and a speed of 20 stays
\* until the next loop escape.
C24_SpeedReducedWhileIgnoring ==
  /\ \A i \in DOMAIN colonies : \A j \in DOMAIN colonies[i].ants :
       LET a == colonies[i].ants[j]
       IN  /\ a.speed \in {NOMINAL_SPEED, ESCAPE_SPEED}
           /\ a.speed = ESCAPE_SPEED
                => a.ignore_pheromones_timer > SPEED_RESTORE_THRESHOLD
  /\ \A L \in TickLogs :
       /\ ~L.loop /\ IgnoreAfterDecrement(L) <= SPEED_RESTORE_THRESHOLD
            => EndAnt(L).speed = NOMINAL_SPEED
       /\ ~L.loop /\ StartAnt(L).speed = NOMINAL_SPEED
            => EndAnt(L).speed = NOMINAL_SPEED
       /\ StartAnt(L).speed = ESCAPE_SPEED
             /\ IgnoreAfterDecrement(L) > SPEED_RESTORE_THRESHOLD
            => EndAnt(L).speed = ESCAPE_SPEED

\* A tick that restored the speed of an agent slowed by a loop escape, the
\* tick before having left the timer above 1.0 s.
C24_SpeedRestored ==
  \E L \in TickLogs :
    /\ StartAnt(L).speed = ESCAPE_SPEED
    /\ StartAnt(L).ignore_pheromones_timer > SPEED_RESTORE_THRESHOLD
    /\ IgnoreAfterDecrement(L) <= SPEED_RESTORE_THRESHOLD
    /\ ~L.loop
    /\ EndAnt(L).speed = NOMINAL_SPEED

\* Whether a coordinate lies outside [margin, size - margin].
OffMargin(v, size) == v < MARGIN \/ v > size * PX - MARGIN

\* C25: after every Ant::update the position of the agent satisfies
\* margin <= x <= width - margin and margin <= y <= height - margin, with
\* margin = 10, whatever steps the tick contained: it is the position the
\* move arrived at with each coordinate held in that range.  The heading is
\* that of the move, turned to pi - h exactly when x was clamped and then
\* to -h exactly when y was clamped.
C25_HeldWithinMargins ==
  \A L \in TickLogs :
    LET a    == EndAnt(L)
        offX == OffMargin(L.movedPos[1], WorldW)
        offY == OffMargin(L.movedPos[2], WorldH)
        dirX == IF offX THEN PI - L.travelDir ELSE L.travelDir
    IN  /\ MARGIN <= a.position[1] /\ a.position[1] <= WorldW * PX - MARGIN
        /\ MARGIN <= a.position[2] /\ a.position[2] <= WorldH * PX - MARGIN
        /\ a.position = <<Within(L.movedPos[1], WorldW), Within(L.movedPos[2], WorldH)>>
        /\ a.direction = IF offY THEN -dirX ELSE dirX

\* An update whose move left the world past a corner: both coordinates were
\* clamped and the heading was reflected twice.
C25_ClampedAtCorner ==
  \E L \in TickLogs :
    /\ OffMargin(L.movedPos[1], WorldW) /\ OffMargin(L.movedPos[2], WorldH)
    /\ EndAnt(L).direction = -(PI - L.travelDir)
    /\ EndAnt(L).position # L.movedPos

\* The threshold of the scent-direction search of an update: 0.002 for Home
\* while carrying, 0.05 otherwise.
SearchThreshold(L) == IF L.carrying0 THEN HOME_THRESHOLD ELSE STANDARD_THRESHOLD

\* C26 as stated: the scent-direction search returns a direction only if the
\* strength of some probed sample is above the threshold; when every probed
\* cell reads at or below it, the search returns no direction, for carrying
\* and for searching agents alike.
C26_DirectionOnlyAboveThreshold ==
  \A L \in TickLogs :
    (L.followed /\ L.probed <= SearchThreshold(L)) => ~L.found

\* For searching agents the search returns a direction exactly when a
\* probed strength is above 0.05.
C26_SearchingOnlyAboveThreshold ==
  \A L \in TickLogs :
    (L.followed /\ ~L.carrying0) => (L.found <=> L.probed > STANDARD_THRESHOLD)

\* A carrying agent was given a direction in an empty scent field.
C26_DirectionInEmptyField ==
  \E L \in TickLogs :
    L.followed /\ L.carrying0 /\ L.found /\ L.probed = 0 /\ ev.prePh = EmptyField

\* The sum of a sequence of numbers.
RECURSIVE SeqSum(_)
SeqSum(s) == IF s = <<>> THEN 0 ELSE Head(s) + SeqSum(Tail(s))

\* The Ant::update calls of the last tick that began carrying food and ended
\* without it.
Dropped ==
  {n \in 1..Len(ev.log) :
     ev.log[n].carrying0 /\ ~EndAnt(ev.log[n]).carrying_food}

\* What the spawn of colony k took from its store in the last tick.
SpawnPaid(k) ==
  IF \E K \in TickChecks : K.colony = k /\ K.spawned THEN SPAWN_COST ELSE 0

\* C27: food is conserved across deliveries: in every tick the number of
\* agents whose carrying_food flag goes from true to false equals the total
\* increase of the delivery counts of the colonies of the list, and equals
\* the total amount added to their stores before the spawn deductions; no
\* delivery is credited to the object that holds the slot of the colony
\* being updated.
C27_FoodConserved ==
  ev.op = "tick" =>
    LET credited == SeqSum([k \in 1..Len(colonies) |->
                      colonies[k].food_deliveries - ev.preCol[k].food_deliveries])
        stored   == SeqSum([k \in 1..Len(colonies) |->
                      colonies[k].food_stored - ev.preCol[k].food_stored
                        + SpawnPaid(k)])
    IN  /\ Cardinality(Dropped) = credited
        /\ Cardinality(Dropped) = stored
        /\ \A L \in TickLogs : L.delivered # L.colony

\* The same for the agents that drop their food at a colony other than
\* their own: each of them is credited to a colony of the list.
C27_CreditedWhenDelivered ==
  \A L \in TickLogs :
    (L.delivered # 0 /\ L.delivered # L.colony) =>
      /\ L.carrying0 /\ ~EndAnt(L).carrying_food
      /\ colonies[L.delivered].food_deliveries
           > ev.preCol[L.delivered].food_deliveries

\* The agents of the colonies of the list.
Agents ==
  UNION {{colonies[i].ants[j] : j \in DOMAIN colonies[i].ants} : i \in DOMAIN colonies}

\* C28: after every tick the home_position of every agent of a colony is
\* the position of a colony of the list, its own or one it was repointed
\* to; it is never the position (0, 0) of the default colony that holds the
\* slot of the colony being updated.
C28_HomeIsAColony ==
  \A a \in Agents :
    /\ \E k \in 1..Len(colonies) : a.home_position = colonies[k].position
    /\ a.home_position # DefaultColony.position

\* The home of every agent is the position of a colony of the list or that
\* of the default colony.
C28_HomeIsAColonyOrTheDefault ==
  \A a \in Agents :
    \/ \E k \in 1..Len(colonies) : a.home_position = colonies[k].position
    \/ a.home_position = DefaultColony.position

\* The kind of the cell a position lies in.
CellAt(position) ==
  LET cell == screen_to_grid(position[1], position[2])
  IN  get_cell(grid, cell[1], cell[2])

\* C29: no agent ends a tick inside a Wall cell: an agent whose position is
\* in a cell that is not a Wall before Ant::update is in a cell that is not
\* a Wall after it, whether the move was recomputed after a wall bounce, an
\* escape step was taken or the position was clamped.
C29_NeverInsideAWall ==
  \A L \in TickLogs :
    CellAt(L.pos0) # "Wall" => CellAt(EndAnt(L).position) # "Wall"

\* The same for the updates that take no escape step and whose move does
\* not meet a Wall cell.
C29_PlainMoveStaysOutside ==
  \A L \in TickLogs :
    (/\ CellAt(L.pos0) # "Wall"
     /\ L.bounced = "none" /\ L.branch # "pickup" /\ ~L.loop
     /\ ~L.clampX /\ ~L.clampY)
      => CellAt(EndAnt(L).position) # "Wall"

\* ================================================== two carrying episodes
\* A run of two carrying episodes starts from the restored save of a world
\* with nests at NestA and NestB and a second Food cell, (11, 2), between
\* them.  The colony at NestA has one agent, which carries food and stands
\* east of that Food cell, within the 40 px of the colony at NestB, heading
\* east.  Frames are 0.3 s or 0.5 s.
EpisodeDts == {3, 5}

EpisodeStarts == {<<120 * PX, 25 * PX>>, <<122 * PX, 25 * PX>>}

EpisodeTerrain ==
  add_food(Terrain(<<NestA, NestB>>), 115 * PX, 25 * PX)

InitEpisode ==
  /\ pheromones = EmptyField
  /\ ev = NoEv
  /\ steps = [NoSteps EXCEPT !.start = "episodes"]
  /\ grid = EpisodeTerrain
  /\ \E p \in EpisodeStarts :
       LET saved == SavedColonies(<<NestA, NestB>>, 1, SavedAnt(p, 0, TRUE, p, 0))
       IN  /\ colonies = Restored(saved)
           /\ NEXT_ANT_ID = IdsBefore(saved, Len(saved) + 1)

EpisodeTick ==
  /\ steps.ticks < MaxEpisodeTicks
  /\ \E delta_time \in EpisodeDts : WorldTick(delta_time)

NextEpisode == EpisodeTick

SpecEpisode == InitEpisode /\ [][NextEpisode]_vars

\* The lifetime at which the carrying episode of an agent began: that of
\* its last pickup, or 0 for an agent that has carried since it was made.
EpisodeStart(id) ==
  IF \E p \in steps.episode : p[1] = id
  THEN (CHOOSE p \in steps.episode : p[1] = id)[2]
  ELSE 0

\* The history holds at most 30 samples; a sample is appended only by an
\* update of a carrying agent, one at a time and at least 0.3 s after the
\* sample before it.
HistoryBoundedAndSpaced ==
  /\ \A a \in Agents :
       /\ Len(a.position_history) <= POSITION_HISTORY_SIZE
       /\ \A n \in 1..(Len(a.position_history) - 1) :
            a.position_history[n + 1].time - a.position_history[n].time
              >= POSITION_RECORD_INTERVAL
  /\ \A L \in TickLogs :
       IF L.passLen >= 0
       THEN /\ L.carrying0
            /\ StartAnt(L).last_position_record + ev.dt >= POSITION_RECORD_INTERVAL
       ELSE EndAnt(L).position_history = StartAnt(L).position_history

\* C30 as stated: the position history never holds more than 30 samples,
\* samples are appended only while the agent carries food and at least
\* 0.3 s apart, and every sample a loop detection pass compares against was
\* recorded during the agent's current carrying episode.
C30_HistoryOfCurrentEpisode ==
  /\ HistoryBoundedAndSpaced
  /\ \A L \in TickLogs :
       L.passLen >= 5 => L.passOldest >= EpisodeStart(L.id)

\* The first two parts alone.
C30_HistoryBoundedAndSpaced == HistoryBoundedAndSpaced

\* A detection pass went through a sample of an episode that ended in a
\* delivery.
C30_StaleSampleCompared ==
  \E L \in TickLogs :
    L.passLen >= 5 /\ L.passOldest < EpisodeStart(L.id)
====
